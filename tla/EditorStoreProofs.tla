------------------------ MODULE EditorStoreProofs --------------------------
(* Proofs about EditorStore, for any jobs, environments, operations and       *)
(* faults: the types, that an apply builds on the version that was on screen, *)
(* that the page's versions keep their numbers, that no edit is applied twice;*)
(* for a user who waits that the screen stays current, and when undo leads    *)
(* from an edit back to the version it was made on.                           *)
EXTENDS EditorStore, FiniteSetTheorems, WellFoundedInduction, TLAPS

-----------------------------------------------------------------------------
(* The inductive invariant.                                                   *)

(* What a job carries at each of its steps.                                   *)
Consistent(w) ==
    /\ w.step = "layout" => w.ev \in Version
    /\ w.step \in {"answered", "refreshed"} => w.answer \in Version
    /\ w.kind = "apply" => w.ev \in Version
    /\ w.kind = "apply" /\ w.step \in {"token", "sent"} =>
          w.env = w.ev.env /\ w.version = w.ev.version
    /\ w.kind = "apply" /\ w.step = "answered" =>
          w.answer.env = w.ev.env /\ w.answer.edits = w.ev.edits \cup w.edits

(* A job the server has not served yet.  Its edits are in flight, all others  *)
(* are spent: part of a row or lost.                                          *)
Waiting(w) == w.kind \in {"apply", "chat"} /\ w.step \in {"token", "sent", "query"}
InFlight == UNION {job[j].edits : j \in {i \in Job : Waiting(job[i])}}
Spent == (1..made) \ InFlight

(* A version somebody holds is a row, or was one: no other row ever takes its *)
(* number, because some row of the environment has that number or a later one.*)
Fits(v) ==
    /\ \E r \in rows : r.env = v.env /\ v.version <= r.version
    /\ \A r \in rows : r.env = v.env /\ r.version = v.version => r = v
OptFits(v) == v = NoVersion \/ Fits(v)

JobsInv == \A j \in Job : Consistent(job[j])
QueueInv == canApplyConstraints => unappliedConstraints = {}

EditsInv ==
    /\ \A j \in Job : Waiting(job[j]) => \E x \in 1..made : job[j].edits = {x}
    /\ \A i, j \in Job : i # j /\ Waiting(job[i]) /\ Waiting(job[j]) =>
          job[i].edits # job[j].edits
RowsInv == AppliedOnce /\ \A r \in rows : r.adds \subseteq Spent

NumbersInv ==
    \A e \in Env : \E r \in rows :
        /\ r.env = e
        /\ \A s \in rows : s.env = e => s.version <= r.version
        /\ r.version <= Cardinality(Spent)

KnownInv ==
    /\ \A r \in rows : Fits(r)
    /\ Fits(environmentVersion) /\ OptFits(previousState) /\ OptFits(nextState)
    /\ \A j \in Job : OptFits(job[j].ev) /\ OptFits(job[j].answer)
    /\ \A l \in lookups : OptFits(l.next) /\ OptFits(l.prev)

IInv ==
    /\ TypeOK
    /\ JobsInv
    /\ QueueInv
    /\ EditsInv
    /\ RowsInv
    /\ NumbersInv
    /\ KnownInv

-----------------------------------------------------------------------------
(* Counting edits.                                                            *)
LEMMA SomeEdits ==
    ASSUME NEW n \in Nat, NEW S \in SUBSET (1..n)
    PROVE  IsFiniteSet(S) /\ Cardinality(S) \in Nat /\ Cardinality(S) <= n
  <1>1. IsFiniteSet(1..n) /\ Cardinality(1..n) = n
    BY FS_Interval
  <1>2. IsFiniteSet(S) /\ Cardinality(S) <= n
    BY <1>1, FS_Subset
  <1> QED
    BY <1>2, FS_CardinalityType

LEMMA MoreEdits ==
    ASSUME NEW n \in Nat, NEW S \in SUBSET (1..n), NEW T \in SUBSET S
    PROVE  /\ Cardinality(T) \in Nat /\ Cardinality(S) \in Nat
           /\ Cardinality(T) <= Cardinality(S)
  BY SomeEdits, FS_Subset

LEMMA OneMoreEdit ==
    ASSUME NEW n \in Nat, NEW S \in SUBSET (1..n), NEW T, NEW x \in S, x \notin T,
           T \cup {x} \subseteq S
    PROVE  /\ Cardinality(T) \in Nat /\ Cardinality(S) \in Nat
           /\ Cardinality(T) + 1 <= Cardinality(S)
  <1>1. T \in SUBSET S /\ T \cup {x} \in SUBSET S /\ T \in SUBSET (1..n)
    OBVIOUS
  <1>2. IsFiniteSet(T) /\ Cardinality(T) \in Nat /\ Cardinality(S) \in Nat
    BY <1>1, SomeEdits
  <1>3. Cardinality(T \cup {x}) = Cardinality(T) + 1
    BY <1>2, FS_AddElement
  <1>4. Cardinality(T \cup {x}) <= Cardinality(S)
    BY <1>1, MoreEdits
  <1> QED
    BY <1>2, <1>3, <1>4

LEMMA NotInFlight ==
    ASSUME EditsInv
    PROVE  /\ InFlight \subseteq 1..made
           /\ \A j \in Job : Waiting(job[j]) => job[j].edits \subseteq InFlight
  BY DEF EditsInv, InFlight

-----------------------------------------------------------------------------
(* The initial states.                                                        *)
LEMMA EarlierTypes ==
    ASSUME NEW n \in 0..Earlier, NEW i \in 0..n
    PROVE  EarlierVersion(i) \in Version
  BY BoundsAssumption, EnvAssumption DEF EarlierVersion, Version, Edit, Number

LEMMA FirstTypes == \A e \in Env : FirstVersion(e) \in Version
  BY BoundsAssumption DEF FirstVersion, Version, Edit, Number

LEMMA NoJobTypes ==
    /\ NoJob \in JobState
    /\ Consistent(NoJob)
    /\ ~Waiting(NoJob)
    /\ NoJob.kind = "none" /\ NoJob.ev = NoVersion /\ NoJob.answer = NoVersion
  BY EnvAssumption, BoundsAssumption
     DEF NoJob, JobState, Kind, Step, OptVersion, Number, Edit, Consistent, Waiting

LEMMA InitInv == Init => IInv
  <1> SUFFICES ASSUME Init PROVE IInv
    OBVIOUS
  <1>1. PICK n \in 0..Earlier :
          /\ made = n
          /\ rows = {FirstVersion(e) : e \in Env} \cup {EarlierVersion(i) : i \in 0..n}
          /\ \E c \in 0..n :
                /\ current = [e \in Env |-> IF e = DefaultEnv THEN c ELSE 0]
                /\ environmentVersion = EarlierVersion(c)
                /\ lookups = {LookupOf(EarlierVersion(c))}
    BY DEF Init
  <1>2. PICK c \in 0..n :
          /\ current = [e \in Env |-> IF e = DefaultEnv THEN c ELSE 0]
          /\ environmentVersion = EarlierVersion(c)
          /\ lookups = {LookupOf(EarlierVersion(c))}
    BY <1>1
  <1>3. n \in Nat /\ c \in Nat /\ n \in Number /\ c \in Number /\ 0 \in Number
    BY BoundsAssumption DEF Number
  <1>4. job = [j \in Job |-> NoJob] /\ \A j \in Job : job[j] = NoJob
    BY DEF Init
  <1>5. previousState = NoVersion /\ nextState = NoVersion /\ willOverwriteState = FALSE
        /\ canApplyConstraints = TRUE /\ unappliedConstraints = {}
    BY DEF Init
  <1>6. TypeOK
    <2>1. rows \subseteq Version
      BY <1>1, EarlierTypes, FirstTypes
    <2>2. current \in [Env -> Number] /\ made \in Number
      BY <1>1, <1>2, <1>3
    <2>3. environmentVersion \in Version /\ {previousState, nextState} \subseteq OptVersion
      BY <1>1, <1>2, <1>5, EarlierTypes DEF OptVersion
    <2>4. lookups \subseteq Lookup
      BY <1>2, <2>3 DEF LookupOf, Lookup, OptVersion
    <2>5. job \in [Job -> JobState]
      BY <1>4, NoJobTypes
    <2> QED
      BY <2>1, <2>2, <2>3, <2>4, <2>5, <1>5 DEF TypeOK, Edit
  <1>7. JobsInv /\ QueueInv /\ EditsInv
    BY <1>4, <1>5, NoJobTypes DEF JobsInv, QueueInv, EditsInv
  <1>8. Spent = 1..n
    BY <1>1, <1>4, NoJobTypes DEF Spent, InFlight
  <1>9. \A r \in rows :
          \/ \E e \in Env : r = FirstVersion(e)
          \/ \E i \in 0..n : r = EarlierVersion(i)
    BY <1>1
  <1>10. RowsInv
    <2>1. \A r \in rows : r.adds = {} \/ \E i \in 1..n : r = EarlierVersion(i) /\ r.adds = {i}
      BY <1>3, <1>9 DEF FirstVersion, EarlierVersion
    <2>2. AppliedOnce
      BY <2>1 DEF AppliedOnce
    <2>3. \A r \in rows : r.adds \subseteq Spent
      BY <2>1, <1>8
    <2> QED
      BY <2>2, <2>3 DEF RowsInv
  <1>11. Cardinality(Spent) = n
    BY <1>8, <1>3, FS_Interval
  <1>12. NumbersInv
    <2>1. ASSUME NEW e \in Env
          PROVE  \E r \in rows : /\ r.env = e
                                 /\ \A s \in rows : s.env = e => s.version <= r.version
                                 /\ r.version <= Cardinality(Spent)
      <3>1. CASE e = DefaultEnv
        <4>1. EarlierVersion(n) \in rows
          BY <1>1, <1>3
        <4> QED
          BY <4>1, <3>1, <1>9, <1>11, <1>3 DEF EarlierVersion, FirstVersion
      <3>2. CASE e # DefaultEnv
        <4>1. FirstVersion(e) \in rows
          BY <1>1
        <4> QED
          BY <4>1, <3>2, <1>9, <1>11, <1>3 DEF EarlierVersion, FirstVersion
      <3> QED
        BY <3>1, <3>2
    <2> QED
      BY <2>1 DEF NumbersInv
  <1>13. KnownInv
    <2>1. \A i \in 0..n : i = 0 => EarlierVersion(i) = FirstVersion(DefaultEnv)
      <3>1. 1..0 = {}
        OBVIOUS
      <3> QED
        BY <3>1 DEF EarlierVersion, FirstVersion
    <2>6. \A r \in rows :
            \/ r = FirstVersion(r.env) /\ r.env # DefaultEnv
            \/ r = EarlierVersion(r.version) /\ r.env = DefaultEnv
      <3>1. \A e \in Env : FirstVersion(e).env = e
        BY DEF FirstVersion
      <3>2. \A i \in 0..n : EarlierVersion(i).env = DefaultEnv /\ EarlierVersion(i).version = i
        BY DEF EarlierVersion
      <3>3. 0 \in 0..n
        BY <1>3
      <3> QED
        BY <2>1, <3>1, <3>2, <3>3, <1>9
    <2>2. \A r, s \in rows : r.env = s.env /\ r.version = s.version => r = s
      BY <2>6
    <2>3. \A r \in rows : r.version \in Nat
      BY <1>3, <1>9 DEF EarlierVersion, FirstVersion
    <2>4. \A r \in rows : Fits(r)
      BY <2>2, <2>3 DEF Fits
    <2>5. environmentVersion \in rows
      BY <1>1, <1>2
    <2> QED
      BY <2>4, <2>5, <1>2, <1>4, <1>5, NoJobTypes DEF KnownInv, OptFits, LookupOf
  <1> QED
    BY <1>6, <1>7, <1>10, <1>12, <1>13 DEF IInv

-----------------------------------------------------------------------------
(* The rows a run adds.                                                       *)
LEMMA MadeIsNat == TypeOK => made \in Nat /\ Spent \in SUBSET (1..made)
  BY BoundsAssumption DEF TypeOK, Number, Spent

LEMMA Latest ==
    ASSUME IInv, NEW e \in Env
    PROVE  /\ LatestNumber(e) \in Nat
           /\ LatestNumber(e) <= Cardinality(Spent)
           /\ \A s \in rows : s.env = e => s.version <= LatestNumber(e)
           /\ \E r \in rows : r.env = e /\ r.version = LatestNumber(e)
  <1>1. PICK r \in rows : /\ r.env = e
                          /\ \A s \in rows : s.env = e => s.version <= r.version
                          /\ r.version <= Cardinality(Spent)
    BY DEF IInv, NumbersInv
  <1>2. \A s \in rows : s.version \in Nat
    BY BoundsAssumption DEF IInv, TypeOK, Version, Number
  <1>3. r.version \in {s.version : s \in RowsOf(e)} /\ After(e, r.version) = {}
    BY <1>1, <1>2 DEF RowsOf, After
  <1>4. /\ LatestNumber(e) \in {s.version : s \in RowsOf(e)}
        /\ After(e, LatestNumber(e)) = {}
    BY <1>3 DEF LatestNumber
  <1>5. PICK t \in rows : t.env = e /\ t.version = LatestNumber(e)
    BY <1>4 DEF RowsOf
  <1>6. \A s \in rows : s.env = e => s.version <= LatestNumber(e)
    BY <1>2, <1>4, <1>5 DEF After, RowsOf
  <1>7. LatestNumber(e) = r.version
    BY <1>1, <1>2, <1>5, <1>6
  <1> QED
    BY <1>1, <1>2, <1>5, <1>6, <1>7

LEMMA Committed ==
    ASSUME IInv, NEW r \in rows, NEW x \in Edit, NEW overwrite \in BOOLEAN,
           CommitRun(r, {x}, overwrite), made' \in Number, Spent' \subseteq 1..made',
           x \notin Spent, Spent \cup {x} \subseteq Spent'
    PROVE  \E q \in Version :
              /\ q = NewRow(r, {x}) /\ q.env = r.env /\ q.edits = r.edits \cup {x}
              /\ rows' \subseteq Version /\ current' \in [Env -> Number]
              /\ RowsInv' /\ NumbersInv'
              /\ Fits(q)' /\ \A v \in Version : Fits(v) => Fits(v)'
              /\ \A s \in rows' : Fits(s)'
  <1> DEFINE q == NewRow(r, {x})
  <1>1. TypeOK /\ rows \subseteq Version /\ r \in Version /\ r.env \in Env
        /\ \A s \in rows : s.version \in Nat
    BY BoundsAssumption DEF IInv, TypeOK, Version, Number
  <1>2. made \in Nat /\ made' \in Nat /\ made' <= MaxEdits /\ Spent \in SUBSET (1..made)
        /\ Spent' \in SUBSET (1..made')
    BY <1>1, MadeIsNat, BoundsAssumption DEF Number
  <1>3. /\ Cardinality(Spent) \in Nat /\ Cardinality(Spent') \in Nat
        /\ Cardinality(Spent) + 1 <= Cardinality(Spent')
        /\ Cardinality(Spent') <= made'
    BY <1>2, OneMoreEdit, SomeEdits
  <1>4. /\ LatestNumber(r.env) \in Nat
        /\ LatestNumber(r.env) <= Cardinality(Spent)
        /\ \A s \in rows : s.env = r.env => s.version <= LatestNumber(r.env)
    BY <1>1, Latest
  <1>5. q.env = r.env /\ q.version = LatestNumber(r.env) + 1
        /\ q.edits = r.edits \cup {x} /\ q.adds = {x}
    BY DEF NewRow
  <1>6. q \in Version
    <2>1. q.version \in Number
      BY <1>2, <1>3, <1>4, <1>5, BoundsAssumption DEF Number
    <2>2. q.edits \in SUBSET Edit /\ q.adds \in SUBSET Edit
      BY <1>1, <1>5 DEF Version
    <2>3. q = [env |-> q.env, version |-> q.version, edits |-> q.edits, adds |-> q.adds]
      BY DEF NewRow
    <2> QED
      BY <1>1, <1>5, <2>1, <2>2, <2>3 DEF Version
  <1>7. /\ rows' \subseteq rows \cup {q}
        /\ q \in rows'
        /\ \A s \in rows : s.env # r.env => s \in rows'
        /\ current' = [current EXCEPT ![r.env] = q.version]
    BY DEF CommitRun, After, RowsOf
  <1>8. PICK c \in Version : c = q
    BY <1>6
  <1>9. rows' \subseteq Version /\ current' \in [Env -> Number]
    BY <1>1, <1>6, <1>7 DEF TypeOK, Version
  <1>10. /\ c.env = r.env /\ c.version = LatestNumber(r.env) + 1
         /\ c.edits = r.edits \cup {x} /\ c.adds = {x}
    BY <1>5, <1>8
  <1>11. /\ rows' \subseteq rows \cup {c} /\ c \in rows'
         /\ \A s \in rows : s.env # r.env => s \in rows'
    BY <1>7, <1>8
  <1>12. c.version \in Nat /\ c.version <= Cardinality(Spent')
    BY <1>3, <1>4, <1>10
  <1>13. \A s \in rows : s.env = c.env => s.version < c.version
    BY <1>1, <1>4, <1>10
  <1>14. RowsInv'
    <2>1. \A s \in rows : s.adds \subseteq Spent
      BY DEF IInv, RowsInv
    <2>2. \A s, t \in rows : s # t => s.adds \cap t.adds = {}
      BY DEF IInv, RowsInv, AppliedOnce
    <2>3. \A s \in rows : s.adds \cap {x} = {}
      BY <2>1
    <2>4. \A s, t \in rows' : s # t => s.adds \cap t.adds = {}
      BY <2>2, <2>3, <1>10, <1>11
    <2>5. \A s \in rows' : s.adds \subseteq Spent'
      BY <2>1, <1>10, <1>11
    <2> QED
      BY <2>4, <2>5 DEF RowsInv, AppliedOnce
  <1>15. NumbersInv'
    <2>1. ASSUME NEW e \in Env
          PROVE  \E s \in rows' : /\ s.env = e
                                  /\ \A t \in rows' : t.env = e => t.version <= s.version
                                  /\ s.version <= Cardinality(Spent')
      <3>1. CASE e = r.env
        <4>1. \A t \in rows' : t.env = e => t.version <= c.version
          BY <3>1, <1>1, <1>13, <1>10, <1>11, <1>12
        <4>2. c \in rows' /\ c.env = e /\ c.version <= Cardinality(Spent')
          BY <3>1, <1>10, <1>11, <1>12
        <4> QED
          BY <4>1, <4>2
      <3>2. CASE e # r.env
        <4>1. PICK s \in rows : /\ s.env = e
                                /\ \A t \in rows : t.env = e => t.version <= s.version
                                /\ s.version <= Cardinality(Spent)
          BY DEF IInv, NumbersInv
        <4>2. s \in rows' /\ s.version <= Cardinality(Spent')
          BY <4>1, <3>2, <1>1, <1>3, <1>7
        <4>3. \A t \in rows' : t.env = e => t.version <= s.version
          BY <4>1, <3>2, <1>10, <1>11
        <4> QED
          BY <4>1, <4>2, <4>3
      <3> QED
        BY <3>1, <3>2
    <2> QED
      BY <2>1 DEF NumbersInv
  <1>16. ASSUME NEW v \in Version, Fits(v)
         PROVE  Fits(v)'
    <2>1. v.version \in Nat /\ c.version \in Nat
      BY <1>12, BoundsAssumption DEF Version, Number
    <2>2. PICK s \in rows : s.env = v.env /\ v.version <= s.version
      BY <1>16 DEF Fits
    <2>3. v.env = c.env => v.version < c.version
      BY <1>1, <1>13, <2>1, <2>2
    <2>4. \E t \in rows' : t.env = v.env /\ v.version <= t.version
      BY <1>10, <1>11, <2>1, <2>2, <2>3
    <2>5. \A t \in rows' : t.env = v.env /\ t.version = v.version => t = v
      BY <1>10, <1>11, <1>16, <2>1, <2>3 DEF Fits
    <2> QED
      BY <2>4, <2>5 DEF Fits
  <1>17. Fits(c)'
    <2>1. c.version \in Nat /\ c \in rows'
      BY <1>11, <1>12
    <2>2. \A t \in rows' : t.env = c.env /\ t.version = c.version => t = c
      BY <1>1, <1>13, <1>11, <2>1
    <2> QED
      BY <2>1, <2>2 DEF Fits
  <1>18. \A s \in rows' : Fits(s)'
    <2>1. \A s \in rows : Fits(s)
      BY DEF IInv, KnownInv
    <2> QED
      BY <2>1, <1>1, <1>11, <1>16, <1>17
  <1> QED
    BY <1>8, <1>9, <1>10, <1>14, <1>15, <1>16, <1>17, <1>18

-----------------------------------------------------------------------------
(* A step that adds no row and enters no edit.  It is enough to look at what  *)
(* it makes of each job, of the screen and of the lookups.                    *)
Follows(w, u) ==
    /\ w \in JobState
    /\ Consistent(w)
    /\ OptFits(w.ev) /\ OptFits(w.answer)
    /\ Waiting(w) => Waiting(u) /\ w.edits = u.edits

Shown(v) == v \in Version /\ Fits(v)
OptShown(v) == v = NoVersion \/ Shown(v)
Queued(can, edits) == can \in BOOLEAN /\ edits \subseteq Edit /\ (can => edits = {})
Sought(l) == l \in Lookup /\ OptFits(l.next) /\ OptFits(l.prev)

JobsStep == /\ job' \in [Job -> JobState]
            /\ \A i \in Job : Follows(job'[i], job[i])
ScreenStep == /\ Shown(environmentVersion')
              /\ OptShown(previousState') /\ OptShown(nextState')
              /\ willOverwriteState' \in BOOLEAN
              /\ Queued(canApplyConstraints', unappliedConstraints')
LookupsStep == \A l \in lookups' : Sought(l)

LEMMA RowsKept ==
    ASSUME IInv, rows' = rows, made' \in Number, Spent \subseteq Spent'
    PROVE  /\ RowsInv' /\ NumbersInv'
           /\ \A v : Fits(v) => Fits(v)'
           /\ \A r \in rows' : Fits(r)'
  <1>1. made' \in Nat /\ Spent' \in SUBSET (1..made') /\ Spent \in SUBSET Spent'
    BY BoundsAssumption DEF Number, Spent
  <1>2. /\ Cardinality(Spent) \in Nat /\ Cardinality(Spent') \in Nat
        /\ Cardinality(Spent) <= Cardinality(Spent')
    BY <1>1, MoreEdits
  <1>3. RowsInv'
    BY DEF IInv, RowsInv, AppliedOnce
  <1>4. NumbersInv'
    <2>1. \A r \in rows : r.version \in Nat
      BY BoundsAssumption DEF IInv, TypeOK, Version, Number
    <2>2. ASSUME NEW e \in Env
          PROVE  \E r \in rows : /\ r.env = e
                                 /\ \A s \in rows : s.env = e => s.version <= r.version
                                 /\ r.version <= Cardinality(Spent')
      BY <1>2, <2>1 DEF IInv, NumbersInv
    <2> QED
      BY <2>2 DEF NumbersInv
  <1>5. \A v : Fits(v) => Fits(v)'
    BY DEF Fits
  <1> QED
    BY <1>3, <1>4, <1>5 DEF IInv, KnownInv

LEMMA HoldsNow ==
    ASSUME IInv
    PROVE  /\ Shown(environmentVersion) /\ OptShown(previousState) /\ OptShown(nextState)
           /\ willOverwriteState \in BOOLEAN
           /\ Queued(canApplyConstraints, unappliedConstraints)
           /\ \A l \in lookups : Sought(l)
           /\ \A j \in Job : Follows(job[j], job[j])
           /\ \A r \in rows : Shown(r)
  BY DEF IInv, TypeOK, KnownInv, JobsInv, QueueInv, Shown, OptShown, Queued, Sought,
         Follows, OptFits, OptVersion

LEMMA StillEdits ==
    ASSUME IInv, made' = made, JobsStep
    PROVE  EditsInv' /\ Spent \subseteq Spent'
  <1>1. \A i \in Job : Waiting(job'[i]) => Waiting(job[i]) /\ job'[i].edits = job[i].edits
    BY DEF JobsStep, Follows
  <1>2. EditsInv'
    BY <1>1 DEF IInv, EditsInv
  <1>3. InFlight' \subseteq InFlight
    BY <1>1 DEF InFlight
  <1> QED
    BY <1>2, <1>3 DEF Spent

LEMMA ClientStep ==
    ASSUME IInv, rows' = rows, made' = made, current' \in [Env -> Number],
           JobsStep, ScreenStep, LookupsStep
    PROVE  IInv'
  <1>1. EditsInv' /\ Spent \subseteq Spent'
    BY StillEdits
  <1>2. made' \in Number /\ rows' \subseteq Version
    BY DEF IInv, TypeOK
  <1>3. /\ RowsInv' /\ NumbersInv' /\ \A r \in rows' : Fits(r)'
        /\ \A v : Fits(v) => Fits(v)'
    BY <1>1, <1>2, RowsKept
  <1>4. TypeOK'
    <2>1. environmentVersion' \in Version /\ {previousState', nextState'} \subseteq OptVersion
      BY DEF ScreenStep, Shown, OptShown, OptVersion
    <2>2. {willOverwriteState', canApplyConstraints'} \subseteq BOOLEAN
          /\ unappliedConstraints' \subseteq Edit
      BY DEF ScreenStep, Queued
    <2>3. job' \in [Job -> JobState] /\ lookups' \subseteq Lookup
      BY DEF JobsStep, LookupsStep, Sought
    <2> QED
      BY <1>2, <2>1, <2>2, <2>3 DEF TypeOK
  <1>5. QueueInv'
    BY DEF ScreenStep, Queued, QueueInv
  <1>6. JobsInv'
    BY DEF JobsStep, Follows, JobsInv
  <1>7. KnownInv'
    <2>1. \A v : OptFits(v) => OptFits(v)'
      BY <1>3 DEF OptFits
    <2>2. Fits(environmentVersion)'
      BY <1>3 DEF ScreenStep, Shown, Fits
    <2>3. OptFits(previousState)' /\ OptFits(nextState)'
      BY <1>3 DEF ScreenStep, OptShown, Shown, OptFits, Fits
    <2>4. \A i \in Job : OptFits(job[i].ev)' /\ OptFits(job[i].answer)'
      BY <2>1 DEF JobsStep, Follows, OptFits, Fits
    <2>5. \A l \in lookups' : OptFits(l.next)' /\ OptFits(l.prev)'
      BY <2>1 DEF LookupsStep, Sought
    <2> QED
      BY <1>3, <2>2, <2>3, <2>4, <2>5 DEF KnownInv
  <1> QED
    BY <1>1, <1>3, <1>4, <1>5, <1>6, <1>7 DEF IInv

LEMMA Becomes ==
    ASSUME IInv, NEW j \in Job, NEW w, job' = [job EXCEPT ![j] = w], Follows(w, job[j])
    PROVE  JobsStep
  <1>1. job \in [Job -> JobState] /\ \A i \in Job : Follows(job[i], job[i])
    BY HoldsNow DEF IInv, TypeOK
  <1> QED
    BY <1>1 DEF JobsStep, Follows

LEMMA EndsStep ==
    ASSUME IInv, NEW j \in Job, Ends(j)
    PROVE  JobsStep
  <1>1. Follows(NoJob, job[j])
    BY NoJobTypes DEF Follows, OptFits
  <1> QED
    BY <1>1, Becomes DEF Ends

(* The steps that say nothing of what a job carries.                          *)
LEMMA GoesStep ==
    ASSUME IInv, NEW j \in Job,
           NEW step \in {"error", "unreachable", "moved", "refresh", "beyond"}, Goes(j, step)
    PROVE  JobsStep
  <1> DEFINE w == [job[j] EXCEPT !.step = step]
  <1>1. Follows(job[j], job[j]) /\ job[j] \in JobState
    BY HoldsNow DEF IInv, TypeOK
  <1>2. Follows(w, job[j])
    BY <1>1 DEF Follows, JobState, Step, Consistent, Waiting
  <1> QED
    BY <1>2, Becomes DEF Goes

-----------------------------------------------------------------------------
(* What the server answers is a row.                                          *)
LEMMA OnlyAnswers == \A S : Only(S) = NoVersion \/ Only(S) \in S
  BY DEF Only

LEMMA Answers ==
    ASSUME IInv
    PROVE  /\ \A e, n : OptShown(CurrentRow(e)) /\ OptShown(NextRow(e, n))
                        /\ OptShown(PrevRow(e, n))
           /\ \A v : OptShown(v) => v \in OptVersion /\ OptFits(v)
  <1>1. \A v : v \in rows => Shown(v)
    BY HoldsNow
  <1>2. ASSUME NEW e, NEW n PROVE OptShown(CurrentRow(e))
    BY <1>1, OnlyAnswers DEF CurrentRow, RowAt, RowsOf, OptShown
  <1>3. ASSUME NEW e, NEW n PROVE OptShown(NextRow(e, n))
    <2>1. NextRow(e, n) = NoVersion \/ NextRow(e, n) \in rows
      BY OnlyAnswers DEF NextRow, After, RowsOf
    <2> QED
      BY <1>1, <2>1 DEF OptShown
  <1>4. ASSUME NEW e, NEW n PROVE OptShown(PrevRow(e, n))
    <2>1. PrevRow(e, n) = NoVersion \/ PrevRow(e, n) \in rows
      BY OnlyAnswers DEF PrevRow, Before, RowsOf
    <2> QED
      BY <1>1, <2>1 DEF OptShown
  <1>5. \A v : OptShown(v) => v \in OptVersion /\ OptFits(v)
    BY DEF OptShown, Shown, OptVersion, OptFits
  <1> QED
    BY <1>2, <1>3, <1>4, <1>5

(* A run that is not refused is based on the row it names.                    *)
LEMMA BaseIsRow ==
    ASSUME NEW e, NEW n, NEW overwrite, RunBase(e, n, overwrite) # NoVersion
    PROVE  /\ RunBase(e, n, overwrite) \in rows
           /\ RunBase(e, n, overwrite).env = e
           /\ RunBase(e, n, overwrite).version = n
  <1>1. RunBase(e, n, overwrite) \in RowAt(e, n)
    BY OnlyAnswers DEF RunBase
  <1> QED
    BY <1>1 DEF RowAt, RowsOf

-----------------------------------------------------------------------------
(* The steps that leave the screen and the lookups alone and make one job     *)
(* something else.                                                            *)
LEMMA JobOnly ==
    ASSUME IInv, JobsStep, rows' = rows, made' = made, current' \in [Env -> Number],
           UNCHANGED <<screen, lookups>>
    PROVE  IInv'
  <1>1. ScreenStep /\ LookupsStep
    BY HoldsNow DEF ScreenStep, LookupsStep, screen, neighbours, queue
  <1> QED
    BY <1>1, ClientStep

LEMMA JobOf ==
    ASSUME IInv, NEW j \in Job
    PROVE  /\ job[j] \in JobState /\ Consistent(job[j]) /\ Follows(job[j], job[j])
           /\ OptFits(job[j].ev) /\ OptFits(job[j].answer)
           /\ current \in [Env -> Number]
  BY HoldsNow DEF IInv, TypeOK, Follows

LEMMA ChangeEnvironmentInv ==
    ASSUME IInv, NEW j \in Job, ChangeEnvironment(j)
    PROVE  IInv'
  <1>1. PICK e \in Env :
          job' = [job EXCEPT ![j] = [NoJob EXCEPT
                     !.kind = "switch", !.step = "refresh", !.env = e]]
    BY DEF ChangeEnvironment
  <1> DEFINE w == [NoJob EXCEPT !.kind = "switch", !.step = "refresh", !.env = e]
  <1>2. Follows(w, job[j])
    BY NoJobTypes DEF Follows, OptFits, JobState, Kind, Step, Consistent, Waiting
  <1>3. JobsStep
    BY <1>1, <1>2, Becomes
  <1> QED
    BY <1>3, JobOf, JobOnly DEF ChangeEnvironment, server

LEMMA GoToInv ==
    ASSUME IInv, NEW j \in Job, GoToPreviousState(j) \/ GoToNextState(j)
    PROVE  IInv'
  <1>1. PICK kind \in Moves, v \in Version :
          /\ Fits(v)
          /\ job' = [job EXCEPT ![j] = [NoJob EXCEPT
                        !.kind = kind, !.step = "layout", !.ev = v]]
    BY HoldsNow DEF GoToPreviousState, GoToNextState, GoTo, OptShown, Shown, Moves
  <1> DEFINE w == [NoJob EXCEPT !.kind = kind, !.step = "layout", !.ev = v]
  <1>2. Follows(w, job[j])
    BY <1>1, NoJobTypes
       DEF Follows, OptFits, JobState, Kind, Step, Consistent, Waiting, Moves, OptVersion
  <1>3. JobsStep
    BY <1>1, <1>2, Becomes
  <1> QED
    BY <1>3, JobOf, JobOnly DEF GoToPreviousState, GoToNextState, GoTo, server

LEMMA SendRunInv ==
    ASSUME IInv, NEW j \in Job, SendRun(j)
    PROVE  IInv'
  <1> DEFINE w == [job[j] EXCEPT !.step = "sent", !.overwrite = willOverwriteState]
  <1>1. job[j].kind = "apply" /\ job[j].step = "token" /\ job' = [job EXCEPT ![j] = w]
    BY DEF SendRun, At
  <1>2. willOverwriteState \in BOOLEAN
    BY HoldsNow
  <1>3. Follows(w, job[j])
    BY <1>1, <1>2, JobOf DEF Follows, JobState, Step, Consistent, Waiting
  <1>4. JobsStep
    BY <1>1, <1>3, Becomes
  <1> QED
    BY <1>4, JobOf, JobOnly DEF SendRun, server

LEMMA SendChatInv ==
    ASSUME IInv, NEW j \in Job, SendChat(j)
    PROVE  IInv'
  <1> DEFINE w == [job[j] EXCEPT !.step = "sent", !.env = environmentVersion.env]
  <1>1. job[j].kind = "chat" /\ job[j].step = "token" /\ job' = [job EXCEPT ![j] = w]
    BY DEF SendChat, At
  <1>2. environmentVersion.env \in Env
    BY HoldsNow DEF Shown, Version
  <1>3. Follows(w, job[j])
    BY <1>1, <1>2, JobOf DEF Follows, JobState, Step, Consistent, Waiting
  <1>4. JobsStep
    BY <1>1, <1>3, Becomes
  <1> QED
    BY <1>4, JobOf, JobOnly DEF SendChat, server

LEMMA ReadForChatInv ==
    ASSUME IInv, NEW j \in Job, ReadForChat(j)
    PROVE  IInv'
  <1> DEFINE w == [job[j] EXCEPT !.step = "query", !.version = current[job[j].env]]
  <1>1. job[j].kind = "chat" /\ job[j].step = "sent" /\ job' = [job EXCEPT ![j] = w]
    BY DEF ReadForChat, At
  <1>2. current[job[j].env] \in Number
    BY JobOf DEF JobState
  <1>3. Follows(w, job[j])
    BY <1>1, <1>2, JobOf DEF Follows, JobState, Step, Consistent, Waiting
  <1>4. JobsStep
    BY <1>1, <1>3, Becomes
  <1> QED
    BY <1>4, JobOf, JobOnly DEF ReadForChat, server

LEMMA GoesInv ==
    ASSUME IInv, NEW j \in Job, RefuseRun(j) \/ RefuseMove(j) \/ ServeMove(j)
    PROVE  IInv'
  <1>1. JobsStep
    BY GoesStep DEF RefuseRun, RefuseMove, ServeMove
  <1>2. current' \in [Env -> Number]
    BY JobOf DEF RefuseRun, RefuseMove, ServeMove, server, JobState
  <1> QED
    BY <1>1, <1>2, JobOnly DEF RefuseRun, RefuseMove, ServeMove, server

LEMMA ApplyFailsInv ==
    ASSUME IInv, NEW j \in Job, ApplyFails(j)
    PROVE  IInv'
  <1> DEFINE w == [job[j] EXCEPT !.step = "refresh", !.env = environmentVersion.env]
  <1>1. job' = [job EXCEPT ![j] = w]
    BY DEF ApplyFails
  <1>2. environmentVersion.env \in Env
    BY DEF IInv, TypeOK, Version
  <1>3. Follows(w, job[j])
    BY <1>2, JobOf DEF Follows, JobState, Step, Consistent, Waiting
  <1>4. JobsStep
    BY <1>1, <1>3, Becomes
  <1> QED
    BY <1>4, JobOf, JobOnly DEF ApplyFails, server

LEMMA ServeGetInv ==
    ASSUME IInv, NEW j \in Job, ServeGet(j)
    PROVE  IInv'
  <1>1. CASE Goes(j, "unreachable")
    BY <1>1, GoesStep, JobOf, JobOnly DEF ServeGet, server
  <1>2. CASE /\ CurrentRow(job[j].env) # NoVersion
             /\ job' = [job EXCEPT ![j].step = "refreshed", ![j].answer = CurrentRow(job[j].env)]
    <2>1. PICK v \in Version : v = CurrentRow(job[j].env) /\ Fits(v)
      BY <1>2, Answers DEF OptShown, Shown
    <2> DEFINE w == [job[j] EXCEPT !.step = "refreshed", !.answer = v]
    <2>2. job' = [job EXCEPT ![j] = w]
      BY <1>2, <2>1
    <2>3. Follows(w, job[j])
      <3>1. job[j] \in JobState /\ Consistent(job[j]) /\ OptFits(job[j].ev)
        BY JobOf
      <3>2. /\ w \in JobState /\ w.step = "refreshed" /\ w.answer = v
            /\ w.kind = job[j].kind /\ w.ev = job[j].ev
        BY <2>1, <3>1 DEF JobState, Step, OptVersion
      <3>3. Consistent(w)
        BY <2>1, <3>1, <3>2 DEF Consistent
      <3> QED
        BY <2>1, <3>1, <3>2, <3>3 DEF Follows, Waiting, OptFits
    <2>4. JobsStep
      BY <2>2, <2>3, Becomes
    <2> QED
      BY <2>4, JobOf, JobOnly DEF ServeGet, server
  <1> QED
    BY <1>1, <1>2 DEF ServeGet

(* The version asked about is one of the neighbours.                          *)
LEMMA GoalShown ==
    ASSUME IInv, NEW j \in Job
    PROVE  OptShown(Goal(j)) /\ (Goal(j) # NoVersion => Goal(j).version \in Number)
  BY HoldsNow DEF Goal, OptShown, Shown, Version

LEMMA SendMoveInv ==
    ASSUME IInv, NEW j \in Job, SendMove(j) \/ AskBeyond(j)
    PROVE  IInv'
  <1>1. PICK step \in {"sent", "asked"} :
          job' = [job EXCEPT ![j].step = step, ![j].version = Goal(j).version]
    BY DEF SendMove, AskBeyond
  <1>2. job[j].kind \in Moves /\ Goal(j).version \in Number
    BY GoalShown DEF SendMove, AskBeyond, At
  <1> DEFINE w == [job[j] EXCEPT !.step = step, !.version = Goal(j).version]
  <1>3. Follows(w, job[j])
    BY <1>2, JobOf DEF Follows, JobState, Step, Consistent, Waiting, Moves
  <1>4. job' = [job EXCEPT ![j] = w]
    BY <1>1
  <1>5. JobsStep
    BY <1>3, <1>4, Becomes
  <1> QED
    BY <1>5, JobOf, JobOnly DEF SendMove, AskBeyond, server

LEMMA MovedInv ==
    ASSUME IInv, NEW j \in Job, Moved(j)
    PROVE  IInv'
  <1> DEFINE w == [job[j] EXCEPT !.step = "beyond", !.env = environmentVersion.env]
  <1>1. job[j].kind \in Moves /\ job' = [job EXCEPT ![j] = w]
    BY DEF Moved, At
  <1>2. environmentVersion.env \in Env
    BY DEF IInv, TypeOK, Version
  <1>3. Follows(w, job[j])
    BY <1>1, <1>2, JobOf DEF Follows, JobState, Step, Consistent, Waiting, Moves
  <1>4. JobsStep
    BY <1>1, <1>3, Becomes
  <1> QED
    BY <1>4, JobOf, JobOnly DEF Moved, server

LEMMA ServeBeyondInv ==
    ASSUME IInv, NEW j \in Job, ServeBeyond(j)
    PROVE  IInv'
  <1>1. CASE Goes(j, "error")
    BY <1>1, GoesStep, JobOf, JobOnly DEF ServeBeyond, server
  <1>2. CASE job' = [job EXCEPT ![j].step = "found", ![j].answer =
                        IF job[j].kind = "undo" THEN PrevRow(job[j].env, job[j].version)
                        ELSE NextRow(job[j].env, job[j].version)]
    <2>1. PICK v \in OptVersion :
            /\ OptFits(v)
            /\ job' = [job EXCEPT ![j].step = "found", ![j].answer = v]
      BY <1>2, Answers
    <2> DEFINE w == [job[j] EXCEPT !.step = "found", !.answer = v]
    <2>2. job[j].kind \in Moves
      BY DEF ServeBeyond, At
    <2>3. Follows(w, job[j])
      BY <2>1, <2>2, JobOf DEF Follows, JobState, Step, Consistent, Waiting, Moves
    <2>4. job' = [job EXCEPT ![j] = w]
      BY <2>1
    <2>5. JobsStep
      BY <2>3, <2>4, Becomes
    <2> QED
      BY <2>5, JobOf, JobOnly DEF ServeBeyond, server
  <1> QED
    BY <1>1, <1>2 DEF ServeBeyond

-----------------------------------------------------------------------------
(* The steps that change the screen.                                          *)
LEMMA UnlockQueue == Unlock => Queued(canApplyConstraints', unappliedConstraints')
  BY DEF Unlock, Queued

LEMMA ShowResultInv ==
    ASSUME IInv, NEW j \in Job, ShowResult(j)
    PROVE  IInv'
  <1>1. JobsStep
    BY EndsStep DEF ShowResult
  <1>2. job[j].answer \in Version
    BY JobOf DEF ShowResult, At, Consistent
  <1>3. Shown(job[j].answer)
    BY <1>2, JobOf, EnvAssumption DEF OptFits, Shown
  <1>4. Queued(canApplyConstraints', unappliedConstraints')
    BY UnlockQueue DEF ShowResult
  <1>5. ScreenStep
    BY <1>3, <1>4, HoldsNow DEF ScreenStep, ShowResult, OptShown
  <1>6. LookupsStep
    BY HoldsNow DEF LookupsStep, ShowResult
  <1> QED
    BY <1>1, <1>5, <1>6, JobOf, ClientStep DEF ShowResult, server

LEMMA ChatFailsInv ==
    ASSUME IInv, NEW j \in Job, ChatFails(j)
    PROVE  IInv'
  <1>1. JobsStep
    BY EndsStep DEF ChatFails
  <1>2. Queued(canApplyConstraints', unappliedConstraints')
    BY UnlockQueue DEF ChatFails
  <1>3. ScreenStep /\ LookupsStep
    BY <1>2, HoldsNow DEF ScreenStep, LookupsStep, ChatFails, neighbours
  <1> QED
    BY <1>1, <1>3, JobOf, ClientStep DEF ChatFails, server

LEMMA RefreshedInv ==
    ASSUME IInv, NEW j \in Job, Refreshed(j)
    PROVE  IInv'
  <1>1. JobsStep
    BY EndsStep DEF Refreshed
  <1>2. job[j].answer \in Version
    BY JobOf DEF Refreshed, At, Consistent
  <1>3. Shown(job[j].answer)
    BY <1>2, JobOf, EnvAssumption DEF OptFits, Shown
  <1>4. Queued(canApplyConstraints', unappliedConstraints')
    BY UnlockQueue, HoldsNow DEF Refreshed, queue
  <1>5. ScreenStep
    BY <1>3, <1>4, HoldsNow DEF ScreenStep, Refreshed, neighbours
  <1>6. Sought(LookupOf(job[j].answer))
    BY <1>2 DEF Sought, Lookup, LookupOf, OptFits, OptVersion
  <1>7. LookupsStep
    BY <1>6, HoldsNow DEF LookupsStep, Refreshed
  <1> QED
    BY <1>1, <1>5, <1>7, JobOf, ClientStep DEF Refreshed, server

LEMMA RefreshFailsInv ==
    ASSUME IInv, NEW j \in Job, RefreshFails(j)
    PROVE  IInv'
  <1>1. JobsStep
    BY EndsStep DEF RefreshFails
  <1> QED
    BY <1>1, JobOf, JobOnly DEF RefreshFails, server

LEMMA ShowInv ==
    ASSUME IInv, NEW j \in Job, Show(j)
    PROVE  IInv'
  <1>1. job[j].kind \in Moves /\ job[j].ev \in Version
    BY JobOf DEF Show, At, Consistent
  <1>2. Shown(job[j].ev) /\ job[j].ev.env \in Env
    BY <1>1, JobOf, EnvAssumption DEF OptFits, Shown, Version
  <1> DEFINE w == [job[j] EXCEPT !.step = "token", !.env = job[j].ev.env]
  <1>3. Follows(w, job[j])
    BY <1>1, <1>2, JobOf DEF Follows, JobState, Step, Consistent, Waiting, Moves
  <1>4. job' = [job EXCEPT ![j] = w]
    BY DEF Show
  <1>5. JobsStep
    BY <1>3, <1>4, Becomes
  <1>6. ScreenStep /\ LookupsStep
    BY <1>2, HoldsNow DEF ScreenStep, LookupsStep, Show, OptShown, queue
  <1> QED
    BY <1>5, <1>6, JobOf, ClientStep DEF Show, server

LEMMA FoundInv ==
    ASSUME IInv, NEW j \in Job, Found(j)
    PROVE  IInv'
  <1>1. JobsStep
    BY EndsStep DEF Found
  <1>2. OptShown(job[j].answer)
    BY JobOf DEF JobState, OptVersion, OptFits, OptShown, Shown
  <1>3. ScreenStep /\ LookupsStep
    BY <1>2, HoldsNow DEF ScreenStep, LookupsStep, Found, queue
  <1> QED
    BY <1>1, <1>3, JobOf, ClientStep DEF Found, server

LEMMA GoToFailsInv ==
    ASSUME IInv, NEW j \in Job, GoToFails(j)
    PROVE  IInv'
  <1>1. JobsStep
    BY EndsStep DEF GoToFails
  <1>2. ScreenStep /\ LookupsStep
    BY HoldsNow DEF ScreenStep, LookupsStep, GoToFails, OptShown, queue
  <1> QED
    BY <1>1, <1>2, JobOf, ClientStep DEF GoToFails, server

-----------------------------------------------------------------------------
(* The lookups.                                                               *)
LEMMA SameJobs == ASSUME IInv, job' = job PROVE JobsStep
  BY HoldsNow DEF JobsStep, IInv, TypeOK

LEMMA SameScreen == ASSUME IInv, UNCHANGED screen PROVE ScreenStep
  BY HoldsNow DEF ScreenStep, screen, neighbours, queue

LEMMA DetachedInv ==
    ASSUME IInv, NEW l \in lookups, Detached(l)
    PROVE  IInv'
  <1>1. JobsStep
    BY SameJobs DEF Detached, LookupNext, LookupPrev, LookupDone, LookupFails
  <1>2. Sought(l)
    BY HoldsNow
  <1>3. /\ rows' = rows /\ made' = made /\ current' \in [Env -> Number]
    BY DEF Detached, LookupNext, LookupPrev, LookupDone, LookupFails, server, IInv, TypeOK
  <1>4. CASE LookupNext(l)
    <2>1. PICK v \in OptVersion : v = NextRow(l.of.env, l.of.version) /\ OptFits(v)
      BY Answers
    <2>2. Sought([l EXCEPT !.step = "prev", !.next = v])
      BY <1>2, <2>1 DEF Sought, Lookup
    <2>3. LookupsStep
      BY <1>4, <2>1, <2>2, HoldsNow DEF LookupsStep, LookupNext
    <2> QED
      BY <1>1, <1>3, <1>4, <2>3, SameScreen, ClientStep DEF LookupNext
  <1>5. CASE LookupPrev(l)
    <2>1. PICK v \in OptVersion : v = PrevRow(l.of.env, l.of.version) /\ OptFits(v)
      BY Answers
    <2>2. Sought([l EXCEPT !.step = "done", !.prev = v])
      BY <1>2, <2>1 DEF Sought, Lookup
    <2>3. LookupsStep
      BY <1>5, <2>1, <2>2, HoldsNow DEF LookupsStep, LookupPrev
    <2> QED
      BY <1>1, <1>3, <1>5, <2>3, SameScreen, ClientStep DEF LookupPrev
  <1>6. CASE LookupDone(l)
    <2>1. OptShown(l.next) /\ OptShown(l.prev)
      BY <1>2 DEF Sought, Lookup, OptVersion, OptFits, OptShown, Shown
    <2>2. ScreenStep /\ LookupsStep
      BY <1>6, <2>1, HoldsNow DEF ScreenStep, LookupsStep, LookupDone, queue
    <2> QED
      BY <1>1, <1>3, <2>2, ClientStep
  <1>7. CASE LookupFails(l)
    <2>1. ScreenStep /\ LookupsStep
      BY <1>7, SameScreen, HoldsNow DEF LookupsStep, LookupFails
    <2> QED
      BY <1>1, <1>3, <2>1, ClientStep
  <1> QED
    BY <1>4, <1>5, <1>6, <1>7 DEF Detached

-----------------------------------------------------------------------------
(* The steps that enter an edit.                                              *)
LEMMA NewEditIsNew ==
    ASSUME IInv, NewEdit
    PROVE  /\ made' \in Number /\ made' \in Edit /\ made' \notin 1..made
           /\ made' \in 1..made' /\ 1..made \subseteq 1..made'
  BY BoundsAssumption DEF IInv, TypeOK, NewEdit, Number, Edit

LEMMA EnterEdit ==
    ASSUME IInv, NewEdit, NEW j \in Job, ~Waiting(job[j]),
           NEW w \in JobState, Consistent(w), OptFits(w.ev), OptFits(w.answer),
           w.edits = {made'}, job' = [job EXCEPT ![j] = w],
           UNCHANGED <<server, environmentVersion, neighbours, lookups>>,
           Queued(canApplyConstraints', unappliedConstraints')
    PROVE  IInv'
  <1>1. /\ made' \in Number /\ made' \in Edit /\ made' \notin 1..made
        /\ made' \in 1..made' /\ 1..made \subseteq 1..made'
    BY NewEditIsNew
  <1>2. job \in [Job -> JobState] /\ \A i \in Job : Follows(job[i], job[i])
    BY HoldsNow DEF IInv, TypeOK
  <1>3. job' \in [Job -> JobState] /\ job'[j] = w /\ \A i \in Job \ {j} : job'[i] = job[i]
    BY <1>2
  <1>4. EditsInv'
    <2>1. \A i \in Job : Waiting(job[i]) => \E x \in 1..made : job[i].edits = {x}
      BY DEF IInv, EditsInv
    <2>2. \A i \in Job : Waiting(job'[i]) => \E x \in 1..made' : job'[i].edits = {x}
      BY <1>1, <1>3, <2>1
    <2>3. \A i, k \in Job : i # k /\ Waiting(job'[i]) /\ Waiting(job'[k]) =>
              job'[i].edits # job'[k].edits
      BY <1>1, <1>3, <2>1 DEF IInv, EditsInv
    <2> QED
      BY <2>2, <2>3 DEF EditsInv, Waiting
  <1>5. Spent \subseteq Spent'
    <2>1. \A i \in Job : Waiting(job'[i]) => job'[i].edits \subseteq InFlight \cup {made'}
      BY <1>3, NotInFlight DEF IInv
    <2>2. InFlight' \subseteq InFlight \cup {made'}
      BY <2>1 DEF InFlight, Waiting
    <2> QED
      BY <1>1, <2>2 DEF Spent
  <1>6. rows' = rows /\ current' = current
    BY DEF server
  <1>7. /\ RowsInv' /\ NumbersInv' /\ \A r \in rows' : Fits(r)'
        /\ \A v : Fits(v) => Fits(v)'
    BY <1>1, <1>5, <1>6, RowsKept
  <1>8. TypeOK' /\ QueueInv'
    BY <1>1, <1>3, <1>6 DEF IInv, TypeOK, neighbours, Queued, QueueInv
  <1>9. JobsInv'
    BY <1>2, <1>3 DEF JobsInv, Follows
  <1>10. KnownInv'
    <2>1. \A v : OptFits(v) => OptFits(v)'
      BY <1>7 DEF OptFits
    <2>2. Fits(environmentVersion)' /\ OptFits(previousState)' /\ OptFits(nextState)'
      BY <1>6 DEF IInv, KnownInv, OptFits, Fits, neighbours
    <2>3. \A i \in Job : OptFits(job'[i].ev) /\ OptFits(job'[i].answer)
      BY <1>2, <1>3 DEF Follows
    <2>4. ASSUME NEW i \in Job
          PROVE  OptFits(job[i].ev)' /\ OptFits(job[i].answer)'
      <3>1. PICK c, d : c = job'[i].ev /\ d = job'[i].answer
        OBVIOUS
      <3>2. OptFits(c)' /\ OptFits(d)'
        BY <2>1, <2>3, <3>1
      <3> QED
        BY <3>1, <3>2 DEF OptFits, Fits
    <2>5. \A l \in lookups' : OptFits(l.next)' /\ OptFits(l.prev)'
      BY <2>1 DEF IInv, KnownInv
    <2> QED
      BY <1>7, <2>2, <2>4, <2>5 DEF KnownInv
  <1> QED
    BY <1>4, <1>7, <1>8, <1>9, <1>10 DEF IInv

LEMMA ApplyInv ==
    ASSUME IInv, NEW j \in Job, Apply(j)
    PROVE  IInv'
  <1>1. NewEdit /\ made' \in Edit
    BY NewEditIsNew DEF Apply
  <1>2. canApplyConstraints /\ unappliedConstraints = {}
    BY DEF Apply, IInv, QueueInv
  <1> DEFINE w == [NoJob EXCEPT !.kind = "apply", !.step = "token", !.ev = environmentVersion,
                     !.env = environmentVersion.env, !.version = environmentVersion.version,
                     !.edits = {made'}]
  <1>3. job' = [job EXCEPT ![j] = w]
    BY <1>2 DEF Apply
  <1>4. Shown(environmentVersion) /\ environmentVersion.env \in Env
        /\ environmentVersion.version \in Number
    BY HoldsNow DEF Shown, Version
  <1>5. w \in JobState
    BY <1>1, <1>4, NoJobTypes DEF JobState, Kind, Step, OptVersion, Shown
  <1>6. Consistent(w) /\ OptFits(w.ev) /\ OptFits(w.answer) /\ w.edits = {made'}
    BY <1>4, NoJobTypes DEF Consistent, OptFits, Shown, JobState
  <1>7. Queued(canApplyConstraints', unappliedConstraints')
    BY <1>1, <1>2 DEF Apply, Queued
  <1>8. ~Waiting(job[j])
    BY DEF Apply, MayStart, Running, Waiting
  <1>9. UNCHANGED <<server, environmentVersion, neighbours, lookups>>
    BY DEF Apply
  <1> HIDE DEF w
  <1> QED
    BY <1>1, <1>3, <1>5, <1>6, <1>7, <1>8, <1>9, EnterEdit

LEMMA SendChatMessageInv ==
    ASSUME IInv, NEW j \in Job, SendChatMessage(j)
    PROVE  IInv'
  <1>1. NewEdit /\ made' \in Edit
    BY NewEditIsNew DEF SendChatMessage
  <1> DEFINE w == [NoJob EXCEPT !.kind = "chat", !.step = "token", !.edits = {made'}]
  <1>2. job' = [job EXCEPT ![j] = w]
    BY DEF SendChatMessage
  <1>4. w \in JobState
    BY <1>1, NoJobTypes DEF JobState, Kind, Step
  <1>5. Consistent(w) /\ OptFits(w.ev) /\ OptFits(w.answer) /\ w.edits = {made'}
    BY NoJobTypes DEF Consistent, OptFits, JobState
  <1>6. Queued(canApplyConstraints', unappliedConstraints')
    BY HoldsNow DEF SendChatMessage, screen, queue
  <1>7. ~Waiting(job[j])
    BY DEF SendChatMessage, MayStart, Running, Waiting
  <1>8. UNCHANGED <<server, environmentVersion, neighbours, lookups>>
    BY DEF SendChatMessage, screen
  <1> HIDE DEF w
  <1> QED
    BY <1>1, <1>2, <1>4, <1>5, <1>6, <1>7, <1>8, EnterEdit

-----------------------------------------------------------------------------
(* The steps that add a row.                                                  *)
LEMMA CommitStep ==
    ASSUME IInv, NEW r \in rows, NEW x \in Edit, NEW overwrite \in BOOLEAN,
           CommitRun(r, {x}, overwrite), made' \in Number,
           x \in 1..made', x \notin Spent, Spent \cup {x} \subseteq Spent',
           EditsInv', UNCHANGED <<screen, lookups>>, job' \in [Job -> JobState],
           \A i \in Job : /\ Consistent(job'[i])
                          /\ OptFits(job'[i].ev)
                          /\ \/ OptFits(job'[i].answer)
                             \/ job'[i].answer = NewRow(r, {x})
    PROVE  IInv'
  <1>1. Spent' \subseteq 1..made'
    BY DEF Spent
  <1>2. PICK q \in Version :
              /\ q = NewRow(r, {x})
              /\ rows' \subseteq Version /\ current' \in [Env -> Number]
              /\ RowsInv' /\ NumbersInv'
              /\ Fits(q)' /\ \A v \in Version : Fits(v) => Fits(v)'
              /\ \A s \in rows' : Fits(s)'
    BY <1>1, Committed
  <1>3. \A v \in OptVersion : OptFits(v) => OptFits(v)'
    BY <1>2 DEF OptVersion, OptFits
  <1>4. TypeOK' /\ QueueInv'
    BY <1>2 DEF IInv, TypeOK, QueueInv, screen, neighbours, queue
  <1>5. JobsInv'
    BY DEF JobsInv
  <1>6. KnownInv'
    <2>1. Fits(environmentVersion)'
      <3>1. environmentVersion' = environmentVersion /\ Shown(environmentVersion)
        BY HoldsNow DEF screen
      <3> QED
        BY <3>1, <1>2 DEF Shown, Fits
    <2>2. OptFits(previousState)' /\ OptFits(nextState)'
      <3>1. /\ previousState' = previousState /\ nextState' = nextState
            /\ OptShown(previousState) /\ OptShown(nextState)
        BY HoldsNow DEF screen, neighbours
      <3> QED
        BY <3>1, <1>2 DEF OptShown, Shown, OptFits, Fits
    <2>3. ASSUME NEW i \in Job
          PROVE  OptFits(job[i].ev)' /\ OptFits(job[i].answer)'
      <3>1. PICK a \in OptVersion, b \in OptVersion : a = job'[i].ev /\ b = job'[i].answer
        BY DEF JobState
      <3>2. OptFits(a) /\ (OptFits(b) \/ b = q)
        BY <3>1, <1>2
      <3>3. OptFits(a)' /\ OptFits(b)'
        BY <3>2, <1>2, <1>3 DEF OptFits
      <3> QED
        BY <3>1, <3>3 DEF OptFits, Fits
    <2>4. \A l \in lookups' : OptFits(l.next)' /\ OptFits(l.prev)'
      BY <1>3, HoldsNow DEF Sought, Lookup
    <2> QED
      BY <1>2, <2>1, <2>2, <2>3, <2>4 DEF KnownInv
  <1> QED
    BY <1>2, <1>4, <1>5, <1>6 DEF IInv

LEMMA ServeRunInv ==
    ASSUME IInv, NEW j \in Job, ServeRun(j)
    PROVE  IInv'
  <1>1. Waiting(job[j]) /\ job[j].kind \in {"apply", "chat"}
    BY DEF ServeRun, Asked, At, Waiting
  <1>2. PICK x \in 1..made : job[j].edits = {x}
    BY <1>1 DEF IInv, EditsInv
  <1>3. PICK r \in rows : r = Base(j) /\ r.env = job[j].env /\ r.version = job[j].version
    BY BaseIsRow DEF ServeRun, Base
  <1>4. PICK overwrite \in BOOLEAN : overwrite = job[j].overwrite
    BY JobOf DEF JobState
  <1>5. /\ CommitRun(r, {x}, overwrite)
        /\ \/ job' = [job EXCEPT ![j].step = "answered", ![j].answer = NewRow(r, {x})]
           \/ Goes(j, "error")
        /\ made' = made /\ UNCHANGED <<screen, lookups>>
    BY <1>2, <1>3, <1>4 DEF ServeRun
  <1>6. PICK w : /\ job' = [job EXCEPT ![j] = w]
                 /\ \/ w = [job[j] EXCEPT !.step = "answered", !.answer = NewRow(r, {x})]
                    \/ w = [job[j] EXCEPT !.step = "error"]
    BY <1>5 DEF Goes
  <1>7. made \in Nat /\ made \in Number /\ x \in Edit
    BY BoundsAssumption DEF IInv, TypeOK, Number, Edit
  <1>8. job \in [Job -> JobState] /\ \A i \in Job : Follows(job[i], job[i])
    BY HoldsNow DEF IInv, TypeOK
  <1>9. job' = [job EXCEPT ![j] = w] /\ job'[j] = w /\ \A i \in Job \ {j} : job'[i] = job[i]
    BY <1>6, <1>8
  <1>10. ~Waiting(w)
    BY <1>6, JobOf DEF Waiting, JobState
  <1>11. EditsInv'
    BY <1>5, <1>9, <1>10 DEF IInv, EditsInv
  <1>12. x \in InFlight
    BY <1>1, <1>2, NotInFlight DEF IInv
  <1>13. InFlight' \subseteq InFlight \ {x}
    <2>1. ASSUME NEW i \in Job, Waiting(job'[i])
          PROVE  job'[i].edits \subseteq InFlight \ {x}
      <3>1. i # j /\ job'[i] = job[i] /\ Waiting(job[i])
        BY <1>9, <1>10, <2>1
      <3>2. job[i].edits # {x} /\ \E y \in 1..made : job[i].edits = {y}
        BY <3>1, <1>1, <1>2 DEF IInv, EditsInv
      <3> QED
        BY <3>1, <3>2, NotInFlight DEF IInv
    <2> QED
      BY <2>1 DEF InFlight, Waiting
  <1>14. x \notin Spent /\ Spent \cup {x} \subseteq Spent'
    BY <1>5, <1>12, <1>13 DEF Spent
  <1>15. NewRow(r, {x}) \in Version /\ NewRow(r, {x}).env = r.env
         /\ NewRow(r, {x}).edits = r.edits \cup {x}
    <2>1. Spent' \subseteq 1..made'
      BY DEF Spent
    <2> QED
      BY <1>5, <1>7, <1>14, <2>1, Committed
  <1>16. PICK q \in Version : q = NewRow(r, {x}) /\ q.env = r.env /\ q.edits = r.edits \cup {x}
    BY <1>15
  <1>17. Consistent(job[j]) /\ OptFits(job[j].ev) /\ OptFits(job[j].answer)
         /\ job[j] \in JobState
    BY JobOf
  <1>18. job[j].kind = "apply" => r = job[j].ev
    <2>1. job[j].kind = "apply" => job[j].step = "sent"
      BY DEF ServeRun, Asked, At
    <2>2. job[j].kind = "apply" =>
            Fits(job[j].ev) /\ job[j].ev.env = r.env /\ job[j].ev.version = r.version
      BY <1>3, <1>17, <2>1, EnvAssumption DEF Consistent, OptFits
    <2> QED
      BY <2>2 DEF Fits
  <1>19. w \in JobState /\ Consistent(w) /\ OptFits(w.ev)
         /\ (OptFits(w.answer) \/ w.answer = NewRow(r, {x}))
    <2>1. CASE w = [job[j] EXCEPT !.step = "answered", !.answer = q]
      <3>1. w \in JobState /\ w.ev = job[j].ev /\ w.answer = q /\ w.kind = job[j].kind
            /\ w.step = "answered" /\ w.edits = {x}
        BY <2>1, <1>2, <1>17 DEF JobState, Step, OptVersion
      <3>2. Consistent(w)
        BY <3>1, <1>16, <1>17, <1>18 DEF Consistent
      <3> QED
        BY <3>1, <3>2, <1>16, <1>17
    <2>2. CASE w = [job[j] EXCEPT !.step = "error"]
      BY <2>2, <1>17 DEF JobState, Step, Consistent
    <2> QED
      BY <2>1, <2>2, <1>6, <1>16
  <1>20. job' \in [Job -> JobState]
    BY <1>8, <1>9, <1>19
  <1>21. \A i \in Job : /\ Consistent(job'[i]) /\ OptFits(job'[i].ev)
                        /\ (OptFits(job'[i].answer) \/ job'[i].answer = NewRow(r, {x}))
    BY <1>8, <1>9, <1>19 DEF Follows
  <1> QED
    BY <1>5, <1>7, <1>11, <1>14, <1>20, <1>21, CommitStep

LEMMA OtherEditInv ==
    ASSUME IInv, NEW e \in Env, OtherEdit(e)
    PROVE  IInv'
  <1>1. PICK r \in rows : r = CurrentRow(e)
    BY OnlyAnswers DEF OtherEdit, CurrentRow, RowAt, RowsOf
  <1>2. PICK x : x = made'
    OBVIOUS
  <1>3. CommitRun(r, {x}, FALSE) /\ NewEdit /\ job' = job /\ UNCHANGED <<screen, lookups>>
    BY <1>1, <1>2 DEF OtherEdit
  <1>4. x \in Edit /\ made' \in Number /\ x \in 1..made' /\ x \notin 1..made
        /\ 1..made \subseteq 1..made'
    BY <1>2, <1>3, NewEditIsNew
  <1>5. InFlight' = InFlight /\ InFlight \subseteq 1..made
    BY <1>3, NotInFlight DEF InFlight, IInv
  <1>6. x \notin Spent /\ Spent \cup {x} \subseteq Spent'
    BY <1>4, <1>5 DEF Spent
  <1>7. EditsInv'
    BY <1>3, <1>4 DEF IInv, EditsInv
  <1>8. job' \in [Job -> JobState]
        /\ \A i \in Job : /\ Consistent(job'[i]) /\ OptFits(job'[i].ev)
                          /\ OptFits(job'[i].answer)
    BY <1>3, HoldsNow DEF IInv, TypeOK, Follows
  <1> QED
    BY <1>3, <1>4, <1>6, <1>7, <1>8, CommitStep

-----------------------------------------------------------------------------
(* All steps.                                                                 *)
LEMMA StutterInv == ASSUME IInv, UNCHANGED vars PROVE IInv'
  BY SameJobs, SameScreen, HoldsNow, ClientStep
     DEF vars, server, LookupsStep, IInv, TypeOK

LEMMA NextInv == IInv /\ [Next]_vars => IInv'
  <1> SUFFICES ASSUME IInv, [Next]_vars PROVE IInv'
    OBVIOUS
  <1>1. ASSUME NEW j \in Job, Click(j) PROVE IInv'
    BY <1>1, ApplyInv, SendChatMessageInv, ChangeEnvironmentInv, GoToInv DEF Click
  <1>2. ASSUME NEW j \in Job, Continue(j) PROVE IInv'
    BY <1>2, SendRunInv, SendChatInv, ReadForChatInv, ServeRunInv, GoesInv, ShowResultInv,
       ChatFailsInv, ApplyFailsInv, ServeGetInv, RefreshedInv, RefreshFailsInv, ShowInv, SendMoveInv,
       MovedInv, ServeBeyondInv, FoundInv, GoToFailsInv
       DEF Continue
  <1>3. CASE Rest
    BY <1>3, StutterInv DEF Rest
  <1> QED
    BY <1>1, <1>2, <1>3, DetachedInv, OtherEditInv, StutterInv DEF Next

THEOREM Invariant == Spec => []IInv
  BY InitInv, NextInv, PTL DEF Spec

(* The variables keep their types; above all, no row gets a number beyond the *)
(* edits made, whatever was overwritten (get_latest_environment_version).     *)
THEOREM TypeCorrect == Spec => []TypeOK
  <1>1. IInv => TypeOK
    BY DEF IInv
  <1> QED
    BY <1>1, Invariant, PTL

(* An apply the server accepted built on the version that was on screen when  *)
(* the user made the change (applyConstraints).                               *)
THEOREM BuildsOnScreen == Spec => []AppliesToScreen
  <1>1. IInv => AppliesToScreen
    BY DEF IInv, JobsInv, Consistent, AppliesToScreen, At
  <1> QED
    BY <1>1, Invariant, PTL

(* As long as there is a row with the number of a version the page holds, it  *)
(* is that version (do_run).                                                  *)
THEOREM NumbersAreForGood == Spec => []HeldVersions
  <1>1. IInv => HeldVersions
    BY DEF IInv, KnownInv, OptFits, Fits, HeldVersions
  <1> QED
    BY <1>1, Invariant, PTL

(* No edit is part of two runs, whichever calls fail in between               *)
(* (unappliedConstraints).                                                    *)
THEOREM NoEditTwice == Spec => []AppliedOnce
  <1>1. IInv => AppliedOnce
    BY DEF IInv, RowsInv
  <1> QED
    BY <1>1, Invariant, PTL

-----------------------------------------------------------------------------
(* A user who waits for all that is running before the next click: one job    *)
(* runs at a time, and no lookup is under way while it does.                  *)

(* Nobody else edits, no call that moves the current version or looks for a   *)
(* neighbour fails, and where runs may fail the page gets an answer when it   *)
(* asks what became of them (a chat message does not ask).                    *)
Undisturbed ==
    /\ Patient /\ "other" \notin Ops /\ Faults \cap {"move", "look"} = {}
    /\ "run" \in Faults => "chat" \notin Ops /\ "refresh" \notin Faults

Here(v) == v \in rows /\ v.env = environmentVersion.env
OptHere(v) == v = NoVersion \/ Here(v)
IsCurrent(v) == v \in rows /\ v.version = current[v.env]

(* The server is ahead of the screen, or the screen of the server.            *)
Awaited(w) ==
    \/ w.kind \in {"apply", "chat"} /\ w.step = "answered"
    \/ w.kind = "apply" /\ w.step \in {"error", "refresh", "refreshed"}
Ahead(w) == w.kind \in Moves /\ w.step \in {"token", "sent"}

(* The page while w runs.                                                     *)
Page(w) ==
    /\ environmentVersion \in rows
    /\ \A e \in Env : \E r \in rows : r.env = e /\ r.version = current[e]
    /\ ~Awaited(w) /\ ~Ahead(w) => IsCurrent(environmentVersion)
    /\ lookups = {} /\ ~Awaited(w) => OptHere(previousState) /\ OptHere(nextState)

(* What w knows of the page.                                                  *)
Target(w) == IF w.kind = "undo" THEN previousState ELSE nextState

KnowsRun(w) ==
    /\ w.kind = "apply" =>
          /\ w.step \in {"token", "sent"} => w.ev = environmentVersion
          /\ w.step \in {"error", "refresh", "refreshed"} => "run" \in Faults
          /\ w.step # "unreachable"
    /\ w.kind = "chat" =>
          /\ "chat" \in Ops
          /\ w.step \in {"token", "sent", "query", "answered"}
          /\ w.step # "token" => w.env = environmentVersion.env
          /\ w.step = "query" => w.version = current[w.env]
    /\ w.kind \in {"apply", "chat"} /\ w.step = "answered" =>
          w.answer.env = environmentVersion.env
    /\ w.step \in {"answered", "refreshed"} => IsCurrent(w.answer)

KnowsMove(w) ==
    w.kind \in Moves =>
        /\ w.step # "error"
        /\ Target(w) = IF w.step = "layout" THEN w.ev ELSE environmentVersion
        /\ Target(w) # NoVersion
        /\ w.step # "layout" => w.env = environmentVersion.env
        /\ w.step = "sent" => w.version = environmentVersion.version
        /\ w.step = "found" => OptHere(w.answer)

SoughtHere == \A l \in lookups : l.of = environmentVersion /\ OptHere(l.next) /\ OptHere(l.prev)

PatientInv ==
    /\ \A i, j \in Job : Running(i) /\ Running(j) => i = j
    /\ \A j \in Job : Running(j) => /\ lookups = {}
                                    /\ Page(job[j]) /\ KnowsRun(job[j]) /\ KnowsMove(job[j])
    /\ (\A j \in Job : ~Running(j)) => Page(NoJob)
    /\ SoughtHere

LEMMA InitPatient == Init => PatientInv
  <1> SUFFICES ASSUME Init PROVE PatientInv
    OBVIOUS
  <1>1. PICK n \in 0..Earlier :
          /\ rows = {FirstVersion(e) : e \in Env} \cup {EarlierVersion(i) : i \in 0..n}
          /\ \E c \in 0..n :
                /\ current = [e \in Env |-> IF e = DefaultEnv THEN c ELSE 0]
                /\ environmentVersion = EarlierVersion(c)
                /\ lookups = {LookupOf(EarlierVersion(c))}
    BY DEF Init
  <1>2. PICK c \in 0..n :
          /\ current = [e \in Env |-> IF e = DefaultEnv THEN c ELSE 0]
          /\ environmentVersion = EarlierVersion(c)
          /\ lookups = {LookupOf(EarlierVersion(c))}
    BY <1>1
  <1>3. /\ EarlierVersion(c).env = DefaultEnv /\ EarlierVersion(c).version = c
        /\ \A e : FirstVersion(e).env = e /\ FirstVersion(e).version = 0
    BY DEF EarlierVersion, FirstVersion
  <1>4. IsCurrent(environmentVersion) /\ environmentVersion \in rows
    BY <1>1, <1>2, <1>3, EnvAssumption DEF IsCurrent
  <1>5. \A e \in Env : \E r \in rows : r.env = e /\ r.version = current[e]
    <2> TAKE e \in Env
    <2>1. CASE e = DefaultEnv
      BY <1>2, <1>3, <1>4, <2>1
    <2>2. CASE e # DefaultEnv
      BY <1>1, <1>2, <1>3, <2>2
    <2> QED
      BY <2>1, <2>2
  <1>6. Page(NoJob)
    BY <1>2, <1>4, <1>5 DEF Page
  <1>7. SoughtHere
    BY <1>2 DEF SoughtHere, LookupOf, OptHere
  <1>8. \A j \in Job : ~Running(j)
    BY NoJobTypes DEF Init, Running
  <1> QED
    BY <1>6, <1>7, <1>8 DEF PatientInv

(* Rows are told apart by environment and number, and the current one of an   *)
(* environment is what the server answers for it.                             *)
LEMMA OneRow ==
    ASSUME IInv, NEW r \in rows, NEW s \in rows, r.env = s.env, r.version = s.version
    PROVE  r = s
  BY DEF IInv, KnownInv, Fits

LEMMA OnlyOf ==
    ASSUME NEW S, S # {}
    PROVE  Only(S) \in S
  BY DEF Only

LEMMA Current ==
    ASSUME IInv, NEW e \in Env, \E r \in rows : r.env = e /\ r.version = current[e]
    PROVE  /\ CurrentRow(e) # NoVersion /\ CurrentRow(e).env = e
           /\ IsCurrent(CurrentRow(e))
           /\ \A v \in rows : v.env = e /\ v.version = current[e] => CurrentRow(e) = v
  <1>1. CurrentRow(e) \in RowAt(e, current[e])
    BY OnlyOf DEF CurrentRow, RowAt, RowsOf
  <1>2. CurrentRow(e) \in rows /\ CurrentRow(e).env = e /\ CurrentRow(e).version = current[e]
    BY <1>1 DEF RowAt, RowsOf
  <1>3. CurrentRow(e) # NoVersion
    BY <1>2, EnvAssumption DEF IInv, TypeOK
  <1> QED
    BY <1>2, <1>3, OneRow DEF IsCurrent

LEMMA AreHere ==
    ASSUME NEW n
    PROVE  /\ OptHere(NextRow(environmentVersion.env, n))
           /\ OptHere(PrevRow(environmentVersion.env, n))
  <1>1. \A e : NextRow(e, n) = NoVersion \/ NextRow(e, n) \in After(e, n)
    BY OnlyAnswers DEF NextRow
  <1>2. \A e : PrevRow(e, n) = NoVersion \/ PrevRow(e, n) \in Before(e, n)
    BY OnlyAnswers DEF PrevRow
  <1> QED
    BY <1>1, <1>2 DEF After, Before, RowsOf, OptHere, Here

(* What has to be shown of a step of a job, and of one of nobody's.           *)
LEMMA OneSteps ==
    ASSUME IInv, NEW j \in Job, NEW w, job' = [job EXCEPT ![j] = w],
           \A i \in Job \ {j} : ~Running(i),
           w.kind # "none" => lookups' = {} /\ KnowsRun(w)' /\ KnowsMove(w)',
           Page(w)', w.kind = "none" => w = NoJob, SoughtHere'
    PROVE  PatientInv'
  <1>1. job'[j] = w /\ \A i \in Job \ {j} : job'[i] = job[i]
    BY DEF IInv, TypeOK
  <1>2. \A i \in Job : Running(i)' => i = j /\ w.kind # "none"
    BY <1>1 DEF Running
  <1>3. \A i \in Job : Running(i)' =>
            Page(job[i])' /\ KnowsRun(job[i])' /\ KnowsMove(job[i])' /\ lookups' = {}
    BY <1>1, <1>2 DEF Page, KnowsRun, KnowsMove, Target
  <1>4. (\A i \in Job : ~Running(i)') => Page(NoJob)'
    BY <1>1 DEF Running
  <1> QED
    BY <1>2, <1>3, <1>4 DEF PatientInv

LEMMA NoneRuns ==
    ASSUME \A j \in Job : ~Running(j), job' = job, Page(NoJob)', SoughtHere'
    PROVE  PatientInv'
  BY DEF PatientInv, Running

LEMMA RunsAlone ==
    ASSUME PatientInv, NEW j \in Job, Running(j)
    PROVE  /\ \A i \in Job \ {j} : ~Running(i)
           /\ lookups = {} /\ Page(job[j]) /\ KnowsRun(job[j]) /\ KnowsMove(job[j])
  BY DEF PatientInv

LEMMA Clicked ==
    ASSUME Undisturbed, PatientInv, NEW j \in Job, NEW op, MayStart(op, j)
    PROVE  /\ op \in Ops /\ lookups = {}
           /\ \A i \in Job : ~Running(i)
           /\ Page(NoJob)
           /\ IsCurrent(environmentVersion) /\ OptHere(previousState) /\ OptHere(nextState)
  <1>1. /\ op \in Ops /\ lookups = {} /\ \A i \in Job : ~Running(i)
    BY DEF MayStart, Undisturbed
  <1>2. Page(NoJob)
    BY <1>1 DEF PatientInv
  <1>3. ~Awaited(NoJob) /\ ~Ahead(NoJob)
    BY NoJobTypes DEF Awaited, Ahead, Moves
  <1> QED
    BY <1>1, <1>2, <1>3 DEF Page

(* A step that only changes what the job knows.                               *)
Still == UNCHANGED <<server, environmentVersion, neighbours, lookups>>

LEMMA SamePage ==
    ASSUME Still, NEW u, NEW w, Page(u), ~Awaited(w) => ~Awaited(u),
           ~Awaited(w) /\ ~Ahead(w) => ~Ahead(u)
    PROVE  Page(w)'
  <1>1. \A v : (OptHere(v)' <=> OptHere(v)) /\ (IsCurrent(v)' <=> IsCurrent(v))
    BY DEF Still, server, OptHere, Here, IsCurrent
  <1>2. /\ rows' = rows /\ current' = current /\ environmentVersion' = environmentVersion
        /\ previousState' = previousState /\ nextState' = nextState /\ lookups' = lookups
    BY DEF Still, server, neighbours
  <1>3. /\ ~Awaited(w) /\ ~Ahead(w) => IsCurrent(environmentVersion)'
        /\ lookups' = {} /\ ~Awaited(w) => OptHere(previousState)' /\ OptHere(nextState)'
    BY <1>1, <1>2 DEF Page, OptHere, Here, IsCurrent
  <1> QED
    BY <1>2, <1>3 DEF Page

LEMMA SameSought ==
    ASSUME Still, SoughtHere
    PROVE  SoughtHere'
  BY DEF Still, server, SoughtHere, OptHere, Here

LEMMA SameKnows ==
    ASSUME Still, NEW w
    PROVE  (KnowsRun(w)' <=> KnowsRun(w)) /\ (KnowsMove(w)' <=> KnowsMove(w))
  BY DEF Still, server, neighbours, KnowsRun, KnowsMove, Target, OptHere, Here, IsCurrent

LEMMA StillSteps ==
    ASSUME IInv, PatientInv, Still, NEW j \in Job, NEW u, NEW w, job' = [job EXCEPT ![j] = w],
           \A i \in Job \ {j} : ~Running(i), lookups = {}, Page(u),
           ~Awaited(w) => ~Awaited(u), ~Awaited(w) /\ ~Ahead(w) => ~Ahead(u),
           w.kind # "none" => KnowsRun(w) /\ KnowsMove(w), w.kind = "none" => w = NoJob
    PROVE  PatientInv'
  <1>1. Page(w)' /\ SoughtHere'
    BY SamePage, SameSought DEF PatientInv
  <1>2. w.kind # "none" => KnowsRun(w)' /\ KnowsMove(w)'
    BY SameKnows
  <1>3. lookups' = {}
    BY DEF Still
  <1> QED
    BY <1>1, <1>2, <1>3, OneSteps

(* A run is for the current version, which is the one on screen.              *)
LEMMA CurrentBase ==
    ASSUME IInv, NEW j \in Job, Asked(j), Page(job[j]), KnowsRun(job[j])
    PROVE  /\ Base(j) = CurrentRow(job[j].env) /\ CurrentRow(job[j].env) # NoVersion
           /\ Base(j) = environmentVersion /\ IsCurrent(environmentVersion)
           /\ job[j].env = environmentVersion.env
  <1>1. IsCurrent(environmentVersion) /\ environmentVersion.env \in Env
    BY DEF Asked, At, Page, Awaited, Ahead, Moves, IInv, TypeOK, Version
  <1>2. /\ job[j].env = environmentVersion.env
        /\ job[j].version = current[environmentVersion.env]
    BY <1>1, JobOf DEF Asked, At, KnowsRun, IsCurrent, Consistent
  <1>3. /\ CurrentRow(environmentVersion.env) # NoVersion
        /\ CurrentRow(environmentVersion.env) = environmentVersion
    BY <1>1, Current DEF IsCurrent
  <1>4. Base(j) = CurrentRow(environmentVersion.env)
    BY <1>2, <1>3 DEF Base, RunBase, CurrentRow
  <1> QED
    BY <1>1, <1>2, <1>3, <1>4

(* The clicks.                                                                *)
LEMMA ClickPatient ==
    ASSUME Undisturbed, IInv, PatientInv, NEW j \in Job, Click(j)
    PROVE  PatientInv'
  <1>1. ASSUME NEW op, MayStart(op, j), Still, NEW w, job' = [job EXCEPT ![j] = w],
               w.kind # "none", ~Awaited(w), KnowsRun(w), KnowsMove(w)
        PROVE  PatientInv'
    <2>1. ~Awaited(NoJob) /\ ~Ahead(NoJob)
      BY NoJobTypes DEF Awaited, Ahead, Moves
    <2> QED
      BY <1>1, <2>1, Clicked, StillSteps
  <1>2. CASE Apply(j)
    <2>1. PICK w : w = [NoJob EXCEPT
                  !.kind = "apply", !.step = "token", !.ev = environmentVersion,
                  !.env = environmentVersion.env, !.version = environmentVersion.version,
                  !.edits = unappliedConstraints \cup {made'}]
      OBVIOUS
    <2>2. w.kind = "apply" /\ w.step = "token" /\ w.ev = environmentVersion
      BY <2>1 DEF NoJob
    <2>3. MayStart("apply", j) /\ Still /\ job' = [job EXCEPT ![j] = w]
      BY <1>2, <2>1 DEF Apply, Still, neighbours
    <2>4. ~Awaited(w) /\ KnowsRun(w) /\ KnowsMove(w)
      BY <2>2 DEF Awaited, KnowsRun, KnowsMove, Moves
    <2> QED
      BY <1>1, <2>2, <2>3, <2>4
  <1>3. CASE SendChatMessage(j)
    <2>1. PICK w : w = [NoJob EXCEPT !.kind = "chat", !.step = "token", !.edits = {made'}]
      OBVIOUS
    <2>2. w.kind = "chat" /\ w.step = "token"
      BY <2>1 DEF NoJob
    <2>3. MayStart("chat", j) /\ Still /\ job' = [job EXCEPT ![j] = w]
      BY <1>3, <2>1 DEF SendChatMessage, Still, screen
    <2>4. ~Awaited(w) /\ KnowsRun(w) /\ KnowsMove(w)
      BY <2>2, <2>3 DEF Awaited, KnowsRun, KnowsMove, Moves, MayStart
    <2> QED
      BY <1>1, <2>2, <2>3, <2>4
  <1>4. ASSUME NEW kind \in Moves, NEW target, GoTo(j, kind, target),
               target = IF kind = "undo" THEN previousState ELSE nextState
        PROVE  PatientInv'
    <2>1. PICK w : w = [NoJob EXCEPT !.kind = kind, !.step = "layout", !.ev = target]
      OBVIOUS
    <2>2. w.kind = kind /\ w.step = "layout" /\ w.ev = target
      BY <2>1 DEF NoJob
    <2>3. MayStart(kind, j) /\ Still /\ job' = [job EXCEPT ![j] = w] /\ target # NoVersion
      BY <1>4, <2>1 DEF GoTo, MayClick, Still, screen
    <2>4. ~Awaited(w) /\ KnowsRun(w) /\ KnowsMove(w)
      BY <1>4, <2>2, <2>3 DEF Awaited, KnowsRun, KnowsMove, Target, Moves
    <2> QED
      BY <1>1, <2>2, <2>3, <2>4 DEF Moves
  <1>5. CASE ChangeEnvironment(j)
    <2>1. PICK e \in Env : job' = [job EXCEPT ![j] = [NoJob EXCEPT
                     !.kind = "switch", !.step = "refresh", !.env = e]]
      BY <1>5 DEF ChangeEnvironment
    <2>2. PICK w : w = [NoJob EXCEPT !.kind = "switch", !.step = "refresh", !.env = e]
      OBVIOUS
    <2>3. w.kind = "switch" /\ w.step = "refresh"
      BY <2>2 DEF NoJob
    <2>4. MayStart("switch", j) /\ Still
      BY <1>5 DEF ChangeEnvironment, MayClick, Still, screen
    <2>5. ~Awaited(w) /\ KnowsRun(w) /\ KnowsMove(w)
      BY <2>3 DEF Awaited, KnowsRun, KnowsMove, Moves
    <2> QED
      BY <1>1, <2>1, <2>2, <2>3, <2>4, <2>5
  <1> QED
    BY <1>2, <1>3, <1>4, <1>5 DEF Click, GoToPreviousState, GoToNextState, Moves

(* The steps of a job that leave the versions and the page alone.             *)
LEMMA StillPatient ==
    ASSUME Undisturbed, IInv, PatientInv, NEW j \in Job,
           \/ SendRun(j) \/ SendChat(j) \/ ReadForChat(j) \/ RefuseRun(j) \/ ChatFails(j)
           \/ ApplyFails(j) \/ ServeGet(j) \/ RefreshFails(j) \/ SendMove(j) \/ RefuseMove(j)
           \/ Moved(j) \/ AskBeyond(j) \/ ServeBeyond(j)
    PROVE  PatientInv'
  <1>1. Running(j) /\ job[j] \in JobState /\ Still
    BY JobOf DEF Running, At, Asked, Moves, Still, screen,
        SendRun, SendChat, ReadForChat, RefuseRun, ChatFails, ApplyFails,
        ServeGet, RefreshFails, SendMove, RefuseMove, Moved, AskBeyond, ServeBeyond
  <1>2. /\ \A i \in Job \ {j} : ~Running(i)
        /\ lookups = {} /\ Page(job[j]) /\ KnowsRun(job[j]) /\ KnowsMove(job[j])
    BY <1>1, RunsAlone
  <1>3. PICK u \in JobState : u = job[j]
    BY <1>1
  <1>4. Page(u) /\ KnowsRun(u) /\ KnowsMove(u) /\ u.kind # "none"
    BY <1>1, <1>2, <1>3 DEF Running
  <1>5. ASSUME NEW w, job' = [job EXCEPT ![j] = w], w.kind = u.kind,
               Awaited(u) => Awaited(w), Ahead(u) => Ahead(w) \/ Awaited(w),
               KnowsRun(w), KnowsMove(w)
        PROVE  PatientInv'
    BY <1>1, <1>2, <1>4, <1>5, StillSteps
  <1>6. CASE SendRun(j)
    <2>1. PICK w : w = [u EXCEPT !.step = "sent", !.overwrite = willOverwriteState]
      OBVIOUS
    <2>2. job' = [job EXCEPT ![j] = w] /\ u.kind = "apply" /\ u.step = "token"
      BY <1>3, <1>6, <2>1 DEF SendRun, At
    <2>3. w.kind = "apply" /\ w.step = "sent" /\ w.ev = u.ev
      BY <2>1, <2>2 DEF JobState
    <2> QED
      BY <1>4, <1>5, <2>2, <2>3 DEF Awaited, Ahead, KnowsRun, KnowsMove, Moves
  <1>7. CASE ReadForChat(j)
    <2>1. PICK w : w = [u EXCEPT !.step = "query", !.version = current[u.env]]
      OBVIOUS
    <2>2. job' = [job EXCEPT ![j] = w] /\ u.kind = "chat" /\ u.step = "sent"
      BY <1>3, <1>7, <2>1 DEF ReadForChat, At
    <2>3. w.kind = "chat" /\ w.step = "query" /\ w.env = u.env /\ w.version = current[u.env]
      BY <2>1, <2>2 DEF JobState
    <2> QED
      BY <1>4, <1>5, <2>2, <2>3 DEF Awaited, Ahead, KnowsRun, KnowsMove, Moves
  <1>8. CASE RefuseRun(j)
    <2>1. PICK w : w = [u EXCEPT !.step = "error"]
      OBVIOUS
    <2>2. job' = [job EXCEPT ![j] = w] /\ w.kind = u.kind /\ w.step = "error"
      BY <1>3, <1>8, <2>1 DEF RefuseRun, Goes, JobState
    <2>3. Asked(j) /\ (Base(j) = NoVersion \/ "run" \in Faults)
      BY <1>8 DEF RefuseRun
    <2>4. Base(j) = CurrentRow(u.env) /\ CurrentRow(u.env) # NoVersion
      BY <1>1, <1>2, <1>3, <2>3, CurrentBase
    <2>5. "run" \in Faults /\ u.kind = "apply"
      BY <1>3, <1>4, <2>3, <2>4 DEF Undisturbed, KnowsRun, Asked, At
    <2> QED
      BY <1>5, <2>2, <2>5 DEF Awaited, Ahead, KnowsRun, KnowsMove, Moves
  <1>9. CASE ChatFails(j)
    BY <1>2, <1>9 DEF ChatFails, At, KnowsRun
  <1>10. CASE ApplyFails(j)
    <2>1. PICK w : w = [u EXCEPT !.step = "refresh", !.env = environmentVersion.env]
      OBVIOUS
    <2>2. job' = [job EXCEPT ![j] = w] /\ u.kind = "apply" /\ u.step = "error"
      BY <1>3, <1>10, <2>1 DEF ApplyFails, At
    <2>3. w.kind = "apply" /\ w.step = "refresh"
      BY <2>1, <2>2 DEF JobState
    <2> QED
      BY <1>4, <1>5, <2>2, <2>3 DEF Awaited, Ahead, KnowsRun, KnowsMove, Moves
  <1>11. CASE ServeGet(j)
    <2>1. /\ u.kind \in {"apply", "switch"} /\ u.step = "refresh" /\ u.env \in Env
          /\ \/ /\ CurrentRow(u.env) # NoVersion
                /\ job' = [job EXCEPT ![j].step = "refreshed", ![j].answer = CurrentRow(u.env)]
             \/ /\ CurrentRow(u.env) = NoVersion \/ "refresh" \in Faults
                /\ Goes(j, "unreachable")
      BY <1>3, <1>11 DEF ServeGet, At, JobState
    <2>2. CurrentRow(u.env) # NoVersion /\ IsCurrent(CurrentRow(u.env))
      BY <1>4, <2>1, Current DEF Page
    <2>3. CASE job' = [job EXCEPT ![j].step = "refreshed", ![j].answer = CurrentRow(u.env)]
      <3>1. PICK w : w = [u EXCEPT !.step = "refreshed", !.answer = CurrentRow(u.env)]
        OBVIOUS
      <3>2. job' = [job EXCEPT ![j] = w]
        BY <1>3, <2>3, <3>1
      <3>3. w.kind = u.kind /\ w.step = "refreshed" /\ w.answer = CurrentRow(u.env)
        BY <3>1 DEF JobState
      <3> QED
        BY <1>4, <1>5, <2>1, <2>2, <3>2, <3>3 DEF Awaited, Ahead, KnowsRun, KnowsMove, Moves
    <2>4. CASE Goes(j, "unreachable") /\ "refresh" \in Faults
      <3>1. PICK w : w = [u EXCEPT !.step = "unreachable"]
        OBVIOUS
      <3>2. job' = [job EXCEPT ![j] = w]
        BY <1>3, <2>4, <3>1 DEF Goes
      <3>3. w.kind = u.kind /\ w.step = "unreachable"
        BY <3>1 DEF JobState
      <3>4. u.kind = "switch"
        BY <1>4, <2>1, <2>4 DEF KnowsRun, Undisturbed
      <3> QED
        BY <1>4, <1>5, <2>1, <3>2, <3>3, <3>4 DEF Awaited, Ahead, KnowsRun, KnowsMove, Moves
    <2> QED
      BY <2>1, <2>2, <2>3, <2>4
  <1>12. CASE RefreshFails(j)
    <2>1. u.kind = "switch" /\ u.step = "unreachable" /\ job' = [job EXCEPT ![j] = NoJob]
      BY <1>3, <1>4, <1>12 DEF RefreshFails, At, Ends, KnowsRun
    <2>2. ~Awaited(u) /\ ~Ahead(u) /\ NoJob.kind = "none"
      BY <2>1, NoJobTypes DEF Awaited, Ahead, Moves
    <2> QED
      BY <1>1, <1>2, <1>4, <2>1, <2>2, StillSteps
  <1>13. CASE SendMove(j)
    <2>1. PICK w : w = [u EXCEPT !.step = "sent", !.version = Goal(j).version]
      OBVIOUS
    <2>2. job' = [job EXCEPT ![j] = w] /\ u.kind \in Moves /\ u.step = "token"
          /\ Goal(j) = Target(u)
      BY <1>3, <1>13, <2>1 DEF SendMove, At, Goal, Target
    <2>3. /\ w.kind = u.kind /\ w.step = "sent" /\ w.env = u.env
          /\ w.version = Target(u).version
      BY <2>1, <2>2 DEF JobState
    <2>4. Target(w) = Target(u)
      BY <2>3 DEF Target
    <2> QED
      BY <1>4, <1>5, <2>2, <2>3, <2>4 DEF Awaited, Ahead, KnowsRun, KnowsMove, Moves
  <1>14. CASE RefuseMove(j)
    BY <1>14 DEF RefuseMove, Undisturbed
  <1>15. CASE Moved(j)
    <2>1. PICK w : w = [u EXCEPT !.step = "beyond", !.env = environmentVersion.env]
      OBVIOUS
    <2>2. job' = [job EXCEPT ![j] = w] /\ u.kind \in Moves /\ u.step = "moved"
      BY <1>3, <1>15, <2>1 DEF Moved, At
    <2>3. w.kind = u.kind /\ w.step = "beyond" /\ w.env = environmentVersion.env
      BY <2>1, <2>2 DEF JobState
    <2>4. Target(w) = Target(u)
      BY <2>3 DEF Target
    <2> QED
      BY <1>4, <1>5, <2>2, <2>3, <2>4 DEF Awaited, Ahead, KnowsRun, KnowsMove, Moves
  <1>16. CASE AskBeyond(j)
    <2>1. PICK w : w = [u EXCEPT !.step = "asked", !.version = Goal(j).version]
      OBVIOUS
    <2>2. job' = [job EXCEPT ![j] = w] /\ u.kind \in Moves /\ u.step = "beyond"
      BY <1>3, <1>16, <2>1 DEF AskBeyond, At
    <2>3. w.kind = u.kind /\ w.step = "asked" /\ w.env = u.env
      BY <2>1, <2>2 DEF JobState
    <2>4. Target(w) = Target(u)
      BY <2>3 DEF Target
    <2> QED
      BY <1>4, <1>5, <2>2, <2>3, <2>4 DEF Awaited, Ahead, KnowsRun, KnowsMove, Moves
  <1>17. CASE ServeBeyond(j)
    <2>1. PICK a : a = IF u.kind = "undo" THEN PrevRow(u.env, u.version)
                       ELSE NextRow(u.env, u.version)
      OBVIOUS
    <2>2. PICK w : w = [u EXCEPT !.step = "found", !.answer = a]
      OBVIOUS
    <2>3. u.kind \in Moves /\ u.step = "asked"
      BY <1>3, <1>17 DEF ServeBeyond, At
    <2>4. job' = [job EXCEPT ![j] = w]
      BY <1>3, <1>17, <2>1, <2>2 DEF ServeBeyond, Undisturbed
    <2>5. w.kind = u.kind /\ w.step = "found" /\ w.env = u.env /\ w.answer = a
      BY <2>2, <2>3 DEF JobState
    <2>6. u.env = environmentVersion.env
      BY <1>4, <2>3 DEF KnowsMove
    <2>7. OptHere(a)
      BY <2>1, <2>6, AreHere
    <2>8. Target(w) = Target(u)
      BY <2>5 DEF Target
    <2> QED
      BY <1>4, <1>5, <2>3, <2>4, <2>5, <2>7, <2>8
         DEF Awaited, Ahead, KnowsRun, KnowsMove, Moves
  <1>18. CASE SendChat(j)
    <2>1. PICK w : w = [u EXCEPT !.step = "sent", !.env = environmentVersion.env]
      OBVIOUS
    <2>2. job' = [job EXCEPT ![j] = w] /\ u.kind = "chat" /\ u.step = "token"
      BY <1>3, <1>18, <2>1 DEF SendChat, At
    <2>3. w.kind = "chat" /\ w.step = "sent" /\ w.env = environmentVersion.env
      BY <2>1, <2>2 DEF JobState
    <2> QED
      BY <1>4, <1>5, <2>2, <2>3 DEF Awaited, Ahead, KnowsRun, KnowsMove, Moves
  <1> QED
    BY <1>6, <1>7, <1>8, <1>9, <1>10, <1>11, <1>12, <1>13, <1>14, <1>15, <1>16, <1>17, <1>18

(* The steps of a job that change the versions or the page.                   *)
LEMMA ServeRunPatient ==
    ASSUME Undisturbed, IInv, PatientInv, NEW j \in Job, ServeRun(j)
    PROVE  PatientInv'
  <1>1. Running(j) /\ job[j] \in JobState /\ Asked(j)
    BY JobOf DEF ServeRun, Running, At, Asked
  <1>2. /\ \A i \in Job \ {j} : ~Running(i)
        /\ lookups = {} /\ Page(job[j]) /\ KnowsRun(job[j])
    BY <1>1, RunsAlone
  <1>3. PICK u \in JobState : u = job[j]
    BY <1>1
  <1>4. PICK r \in rows : r = environmentVersion
    BY <1>2 DEF Page
  <1>5. Base(j) = r /\ IsCurrent(r) /\ r.version \in Nat /\ r.env \in Env
    BY <1>1, <1>2, <1>4, CurrentBase, BoundsAssumption DEF IInv, TypeOK, Version, Number
  <1>6. PICK q : q = NewRow(r, u.edits)
    OBVIOUS
  <1>7. q.env = r.env
    BY <1>6 DEF NewRow
  <1>8. /\ q \in rows' /\ r \in rows'
        /\ \A s \in rows : s.env # r.env => s \in rows'
        /\ current' = [current EXCEPT ![r.env] = q.version]
    BY <1>3, <1>5, <1>6 DEF ServeRun, CommitRun, After, RowsOf
  <1>9. current \in [Env -> Number] /\ environmentVersion' = r /\ lookups' = {}
        /\ previousState' = previousState /\ nextState' = nextState
    BY <1>2, <1>4 DEF ServeRun, screen, neighbours, IInv, TypeOK
  <1>10. IsCurrent(q)'
    BY <1>5, <1>7, <1>8, <1>9 DEF IsCurrent
  <1>11. \A e \in Env : \E s \in rows' : s.env = e /\ s.version = current'[e]
    <2> TAKE e \in Env
    <2>1. CASE e = r.env
      BY <1>7, <1>10, <1>8, <2>1 DEF IsCurrent
    <2>2. CASE e # r.env
      BY <1>2, <1>8, <1>9, <2>2 DEF Page
    <2> QED
      BY <2>1, <2>2
  <1>12. SoughtHere'
    BY <1>9 DEF SoughtHere
  <1>13. ASSUME NEW w, job' = [job EXCEPT ![j] = w], w.kind \in {"apply", "chat"},
                Awaited(w), KnowsRun(w)'
         PROVE  PatientInv'
    <2>1. Page(w)'
      BY <1>8, <1>9, <1>11, <1>13 DEF Page
    <2>2. KnowsMove(w)'
      BY <1>13 DEF KnowsMove, Moves
    <2> QED
      BY <1>2, <1>9, <1>12, <1>13, <2>1, <2>2, OneSteps
  <1>14. u.kind = "apply" \/ u.kind = "chat"
    BY <1>1, <1>3 DEF Asked, At
  <1>15. CASE job' = [job EXCEPT ![j].step = "answered", ![j].answer = NewRow(Base(j), job[j].edits)]
    <2>1. PICK w : w = [u EXCEPT !.step = "answered", !.answer = q]
      OBVIOUS
    <2>2. job' = [job EXCEPT ![j] = w]
      BY <1>3, <1>5, <1>6, <1>15, <2>1
    <2>3. w.kind = u.kind /\ w.step = "answered" /\ w.env = u.env /\ w.answer = q
      BY <2>1 DEF JobState
    <2>4. u.kind = "chat" => "chat" \in Ops /\ u.env = r.env
      BY <1>1, <1>2, <1>3, <1>4 DEF KnowsRun, Asked, At
    <2>5. Awaited(w)
      BY <1>14, <2>3 DEF Awaited
    <2>6. KnowsRun(w)'
      BY <1>7, <1>9, <1>10, <2>3, <2>4 DEF KnowsRun
    <2> QED
      BY <1>13, <1>14, <2>2, <2>3, <2>5, <2>6
  <1>16. CASE "run" \in Faults /\ Goes(j, "error")
    <2>1. PICK w : w = [u EXCEPT !.step = "error"]
      OBVIOUS
    <2>2. job' = [job EXCEPT ![j] = w]
      BY <1>3, <1>16, <2>1 DEF Goes
    <2>3. w.kind = u.kind /\ w.step = "error"
      BY <2>1 DEF JobState
    <2>4. u.kind = "apply"
      BY <1>2, <1>3, <1>14, <1>16 DEF KnowsRun, Undisturbed
    <2>5. Awaited(w) /\ KnowsRun(w)'
      BY <1>16, <2>3, <2>4 DEF Awaited, KnowsRun
    <2> QED
      BY <1>13, <2>2, <2>3, <2>4, <2>5
  <1> QED
    BY <1>15, <1>16 DEF ServeRun

(* A job that ends with the page on the current version.                      *)
LEMMA EndsCurrent ==
    ASSUME IInv, PatientInv, NEW j \in Job, Running(j), Ends(j), UNCHANGED server,
           IsCurrent(environmentVersion)',
           lookups' = {} => OptHere(previousState)' /\ OptHere(nextState)', SoughtHere'
    PROVE  PatientInv'
  <1>1. \A i \in Job \ {j} : ~Running(i)
    BY RunsAlone
  <1>2. \A e \in Env : \E r \in rows' : r.env = e /\ r.version = current'[e]
    BY RunsAlone DEF Page, server
  <1>3. Page(NoJob)'
    BY <1>2 DEF Page, IsCurrent
  <1> QED
    BY <1>1, <1>3, NoJobTypes, OneSteps DEF Ends

LEMMA ShowResultPatient ==
    ASSUME IInv, PatientInv, NEW j \in Job, ShowResult(j)
    PROVE  PatientInv'
  <1>1. Running(j) /\ job[j].kind \in {"apply", "chat"} /\ job[j].step = "answered"
    BY DEF ShowResult, At, Running
  <1>2. lookups = {} /\ Page(job[j]) /\ KnowsRun(job[j])
    BY <1>1, RunsAlone
  <1>3. /\ IsCurrent(job[j].answer) /\ job[j].answer.env = environmentVersion.env
        /\ environmentVersion \in rows
    BY <1>1, <1>2 DEF KnowsRun, Page
  <1>4. UNCHANGED server /\ Ends(j) /\ lookups' = lookups /\ environmentVersion' = job[j].answer
        /\ previousState' = environmentVersion /\ nextState' = NoVersion
    BY DEF ShowResult
  <1>5. IsCurrent(environmentVersion)'
    BY <1>3, <1>4 DEF IsCurrent, server
  <1>6. OptHere(previousState)' /\ OptHere(nextState)'
    BY <1>3, <1>4 DEF OptHere, Here, server
  <1>7. SoughtHere'
    BY <1>2, <1>4 DEF SoughtHere
  <1> QED
    BY <1>1, <1>4, <1>5, <1>6, <1>7, EndsCurrent

LEMMA RefreshedPatient ==
    ASSUME IInv, PatientInv, NEW j \in Job, Refreshed(j)
    PROVE  PatientInv'
  <1>1. Running(j) /\ job[j].step = "refreshed"
    BY DEF Refreshed, At, Running
  <1>2. lookups = {} /\ IsCurrent(job[j].answer)
    BY <1>1, RunsAlone DEF KnowsRun
  <1>3. UNCHANGED server /\ Ends(j) /\ environmentVersion' = job[j].answer
        /\ lookups' = {LookupOf(job[j].answer)}
    BY <1>2 DEF Refreshed
  <1>4. IsCurrent(environmentVersion)'
    BY <1>2, <1>3 DEF IsCurrent, server
  <1>5. SoughtHere'
    BY <1>3 DEF SoughtHere, LookupOf, OptHere
  <1> QED
    BY <1>1, <1>3, <1>4, <1>5, EndsCurrent

LEMMA FoundPatient ==
    ASSUME IInv, PatientInv, NEW j \in Job, Found(j)
    PROVE  PatientInv'
  <1>1. Running(j) /\ job[j].kind \in Moves /\ job[j].step = "found"
    BY DEF Found, At, Running, Moves
  <1>2. lookups = {} /\ Page(job[j]) /\ KnowsMove(job[j])
    BY <1>1, RunsAlone
  <1>3. /\ IsCurrent(environmentVersion) /\ OptHere(previousState) /\ OptHere(nextState)
        /\ OptHere(job[j].answer)
    BY <1>1, <1>2 DEF Page, KnowsMove, Awaited, Ahead, Moves
  <1>4. UNCHANGED server /\ Ends(j) /\ environmentVersion' = environmentVersion
        /\ lookups' = lookups
        /\ previousState' \in {previousState, job[j].answer}
        /\ nextState' \in {nextState, job[j].answer}
    BY DEF Found
  <1>5. IsCurrent(environmentVersion)'
    BY <1>3, <1>4 DEF IsCurrent, server
  <1>6. OptHere(previousState)' /\ OptHere(nextState)'
    BY <1>3, <1>4 DEF OptHere, Here, server
  <1>7. SoughtHere'
    BY <1>2, <1>4 DEF SoughtHere
  <1> QED
    BY <1>1, <1>4, <1>5, <1>6, <1>7, EndsCurrent

LEMMA ShowPatient ==
    ASSUME IInv, PatientInv, NEW j \in Job, Show(j)
    PROVE  PatientInv'
  <1>1. Running(j) /\ job[j] \in JobState /\ job[j].kind \in Moves /\ job[j].step = "layout"
    BY JobOf DEF Show, At, Running, Moves
  <1>2. /\ \A i \in Job \ {j} : ~Running(i)
        /\ lookups = {} /\ Page(job[j]) /\ KnowsMove(job[j])
    BY <1>1, RunsAlone
  <1>3. PICK u \in JobState : u = job[j]
    BY <1>1
  <1>4. /\ environmentVersion \in rows /\ OptHere(previousState) /\ OptHere(nextState)
        /\ Target(u) = u.ev /\ u.ev # NoVersion
    BY <1>1, <1>2, <1>3 DEF Page, KnowsMove, Awaited, Ahead, Moves
  <1>5. Here(u.ev)
    BY <1>4 DEF Target, OptHere
  <1>6. PICK w : w = [u EXCEPT !.step = "token", !.env = u.ev.env]
    OBVIOUS
  <1>7. w.kind = u.kind /\ w.step = "token" /\ w.env = u.ev.env
    BY <1>6 DEF JobState
  <1>8. /\ job' = [job EXCEPT ![j] = w] /\ rows' = rows /\ current' = current
        /\ environmentVersion' = u.ev /\ lookups' = {}
        /\ u.kind = "undo" => nextState' = environmentVersion /\ previousState' = previousState
        /\ u.kind # "undo" => previousState' = environmentVersion /\ nextState' = nextState
    BY <1>2, <1>3, <1>6 DEF Show, server
  <1>9. OptHere(previousState)' /\ OptHere(nextState)'
    <2>1. previousState' \in {previousState, environmentVersion}
          /\ nextState' \in {nextState, environmentVersion}
      BY <1>8
    <2> QED
      BY <1>4, <1>5, <1>8, <2>1 DEF OptHere, Here
  <1>10. Page(w)'
    BY <1>1, <1>2, <1>3, <1>5, <1>7, <1>8, <1>9 DEF Page, Here, Ahead
  <1>11. Target(w)' = u.ev
    BY <1>4, <1>7, <1>8 DEF Target
  <1>12. KnowsMove(w)' /\ KnowsRun(w)'
    BY <1>1, <1>3, <1>4, <1>7, <1>8, <1>11 DEF KnowsMove, KnowsRun, Moves
  <1>13. SoughtHere' /\ w.kind # "none"
    BY <1>1, <1>3, <1>7, <1>8 DEF SoughtHere, Moves
  <1> QED
    BY <1>2, <1>8, <1>10, <1>12, <1>13, OneSteps

LEMMA ServeMovePatient ==
    ASSUME Undisturbed, IInv, PatientInv, NEW j \in Job, ServeMove(j)
    PROVE  PatientInv'
  <1>1. Running(j) /\ job[j] \in JobState /\ job[j].kind \in Moves /\ job[j].step = "sent"
    BY JobOf DEF ServeMove, At, Running, Moves
  <1>2. /\ \A i \in Job \ {j} : ~Running(i)
        /\ lookups = {} /\ Page(job[j]) /\ KnowsMove(job[j])
    BY <1>1, RunsAlone
  <1>3. PICK u \in JobState : u = job[j]
    BY <1>1
  <1>4. /\ environmentVersion \in rows /\ OptHere(previousState) /\ OptHere(nextState)
        /\ Target(u) = environmentVersion /\ environmentVersion # NoVersion
        /\ u.env = environmentVersion.env /\ u.version = environmentVersion.version
    BY <1>1, <1>2, <1>3 DEF Page, KnowsMove, Awaited, Moves
  <1>5. PICK w : w = [u EXCEPT !.step = "moved"]
    OBVIOUS
  <1>6. w.kind = u.kind /\ w.step = "moved" /\ w.env = u.env
    BY <1>5 DEF JobState
  <1>7. /\ job' = [job EXCEPT ![j] = w] /\ rows' = rows
        /\ current' = [current EXCEPT ![environmentVersion.env] = environmentVersion.version]
        /\ environmentVersion' = environmentVersion /\ lookups' = {}
        /\ previousState' = previousState /\ nextState' = nextState
    BY <1>2, <1>3, <1>4, <1>5 DEF ServeMove, Goes, Undisturbed, screen, neighbours
  <1>8. current \in [Env -> Number] /\ environmentVersion.env \in Env
    BY DEF IInv, TypeOK, Version
  <1>9. OptHere(previousState)' /\ OptHere(nextState)' /\ IsCurrent(environmentVersion)'
    BY <1>4, <1>7, <1>8 DEF OptHere, Here, IsCurrent
  <1>10. \A e \in Env : \E r \in rows' : r.env = e /\ r.version = current'[e]
    <2> TAKE e \in Env
    <2>1. CASE e = environmentVersion.env
      BY <1>4, <1>7, <1>8, <2>1
    <2>2. CASE e # environmentVersion.env
      BY <1>2, <1>7, <1>8, <2>2 DEF Page
    <2> QED
      BY <2>1, <2>2
  <1>11. Page(w)'
    BY <1>4, <1>7, <1>9, <1>10 DEF Page
  <1>12. Target(w)' = environmentVersion
    BY <1>4, <1>6, <1>7 DEF Target
  <1>13. KnowsMove(w)' /\ KnowsRun(w)'
    BY <1>1, <1>3, <1>4, <1>6, <1>7, <1>12 DEF KnowsMove, KnowsRun, Moves
  <1>14. SoughtHere' /\ w.kind # "none"
    BY <1>1, <1>3, <1>6, <1>7 DEF SoughtHere, Moves
  <1> QED
    BY <1>2, <1>7, <1>11, <1>13, <1>14, OneSteps

(* A move does not fail.                                                      *)
LEMMA NoGoToFails ==
    ASSUME PatientInv, NEW j \in Job
    PROVE  ~GoToFails(j)
  <1> SUFFICES ASSUME GoToFails(j) PROVE FALSE
    OBVIOUS
  <1>1. /\ Running(j) /\ job[j].kind \in Moves
        /\ \/ job[j].step = "error"
           \/ job[j].step \in {"token", "beyond"} /\ Goal(j) = NoVersion
    BY DEF GoToFails, At, Running, Moves
  <1>2. KnowsMove(job[j])
    BY <1>1, RunsAlone
  <1>3. Goal(j) = Target(job[j])
    BY DEF Goal, Target
  <1> QED
    BY <1>1, <1>2, <1>3 DEF KnowsMove

(* The lookups.                                                               *)
LEMMA DetachedPatient ==
    ASSUME Undisturbed, IInv, PatientInv, NEW l \in lookups, Detached(l)
    PROVE  PatientInv'
  <1>1. /\ \A j \in Job : ~Running(j)
        /\ Page(NoJob) /\ job' = job /\ UNCHANGED server
        /\ environmentVersion' = environmentVersion
    BY DEF PatientInv, Detached, LookupNext, LookupPrev, LookupDone, LookupFails, screen
  <1>2. /\ l.of = environmentVersion /\ OptHere(l.next) /\ OptHere(l.prev) /\ SoughtHere
        /\ l \in Lookup
    BY DEF PatientInv, SoughtHere, IInv, TypeOK
  <1>3. \A v : (OptHere(v)' <=> OptHere(v)) /\ (IsCurrent(v)' <=> IsCurrent(v))
    BY <1>1 DEF server, OptHere, Here, IsCurrent
  <1>4. ~Awaited(NoJob) /\ ~Ahead(NoJob)
    BY NoJobTypes DEF Awaited, Ahead, Moves
  <1>5. IsCurrent(environmentVersion)'
    BY <1>1, <1>4 DEF Page, IsCurrent, server
  <1>6. ASSUME lookups' = {} => OptHere(previousState') /\ OptHere(nextState')
        PROVE  Page(NoJob)'
    <2>1. lookups' = {} => OptHere(previousState)' /\ OptHere(nextState)'
      BY <1>1, <1>6 DEF server, OptHere, Here
    <2>2. \A e \in Env : \E r \in rows' : r.env = e /\ r.version = current'[e]
      BY <1>1 DEF Page, server
    <2> QED
      BY <1>5, <2>1, <2>2 DEF Page, IsCurrent
  <1>7. ASSUME \A k \in lookups' :
                   k.of = environmentVersion /\ OptHere(k.next) /\ OptHere(k.prev)
        PROVE  SoughtHere'
    BY <1>1, <1>3, <1>7 DEF SoughtHere
  <1>8. CASE LookupNext(l)
    <2>1. PICK k : k = [l EXCEPT !.step = "prev", !.next = NextRow(l.of.env, l.of.version)]
      OBVIOUS
    <2>2. k.of = l.of /\ k.next = NextRow(l.of.env, l.of.version) /\ k.prev = l.prev
      BY <1>2, <2>1 DEF Lookup
    <2>3. OptHere(k.next)
      BY <1>2, <2>2, AreHere
    <2>4. lookups' = (lookups \ {l}) \cup {k}
      BY <1>8, <2>1 DEF LookupNext
    <2>5. Page(NoJob)'
      BY <1>6, <2>4
    <2>6. SoughtHere'
      BY <1>2, <1>7, <2>2, <2>3, <2>4 DEF SoughtHere
    <2> QED
      BY <1>1, <2>5, <2>6, NoneRuns
  <1>9. CASE LookupPrev(l)
    <2>1. PICK k : k = [l EXCEPT !.step = "done", !.prev = PrevRow(l.of.env, l.of.version)]
      OBVIOUS
    <2>2. k.of = l.of /\ k.prev = PrevRow(l.of.env, l.of.version) /\ k.next = l.next
      BY <1>2, <2>1 DEF Lookup
    <2>3. OptHere(k.prev)
      BY <1>2, <2>2, AreHere
    <2>4. lookups' = (lookups \ {l}) \cup {k}
      BY <1>9, <2>1 DEF LookupPrev
    <2>5. Page(NoJob)'
      BY <1>6, <2>4
    <2>6. SoughtHere'
      BY <1>2, <1>7, <2>2, <2>3, <2>4 DEF SoughtHere
    <2> QED
      BY <1>1, <2>5, <2>6, NoneRuns
  <1>10. CASE LookupDone(l)
    <2>1. lookups' = lookups \ {l} /\ nextState' = l.next /\ previousState' = l.prev
      BY <1>10 DEF LookupDone
    <2>2. Page(NoJob)'
      BY <1>2, <1>6, <2>1
    <2>3. SoughtHere'
      BY <1>2, <1>7, <2>1 DEF SoughtHere
    <2> QED
      BY <1>1, <2>2, <2>3, NoneRuns
  <1>11. ~LookupFails(l)
    BY DEF LookupFails, Undisturbed
  <1> QED
    BY <1>8, <1>9, <1>10, <1>11 DEF Detached

LEMMA StutterPatient == ASSUME PatientInv, UNCHANGED vars PROVE PatientInv'
  <1>1. Still /\ job' = job /\ lookups' = lookups
    BY DEF vars, Still, screen
  <1>2. \A w : Page(w) => Page(w)'
    BY <1>1, SamePage
  <1>3. \A w : (KnowsRun(w)' <=> KnowsRun(w)) /\ (KnowsMove(w)' <=> KnowsMove(w))
    BY <1>1, SameKnows
  <1>4. \A j \in Job : Running(j)' => /\ lookups' = {}
                                      /\ Page(job[j])' /\ KnowsRun(job[j])' /\ KnowsMove(job[j])'
    <2> SUFFICES ASSUME NEW j \in Job, Running(j)'
                 PROVE  /\ lookups' = {}
                        /\ Page(job[j])' /\ KnowsRun(job[j])' /\ KnowsMove(job[j])'
      OBVIOUS
    <2>1. PICK u : u = job[j]
      OBVIOUS
    <2>2. lookups = {} /\ Page(u) /\ KnowsRun(u) /\ KnowsMove(u)
      BY <1>1, <2>1 DEF PatientInv, Running
    <2>3. Page(u)' /\ KnowsRun(u)' /\ KnowsMove(u)' /\ job'[j] = u
      BY <1>1, <1>2, <1>3, <2>1, <2>2
    <2> QED
      BY <1>1, <2>2, <2>3 DEF Page, KnowsRun, KnowsMove, Target
  <1>5. SoughtHere'
    BY <1>1, SameSought DEF PatientInv
  <1>6. (\A j \in Job : ~Running(j)') => Page(NoJob)'
    BY <1>1, <1>2 DEF PatientInv, Running
  <1>7. \A i, j \in Job : Running(i)' /\ Running(j)' => i = j
    BY <1>1 DEF PatientInv, Running
  <1> QED
    BY <1>4, <1>5, <1>6, <1>7 DEF PatientInv

LEMMA NextPatient == Undisturbed /\ IInv /\ PatientInv /\ [Next]_vars => PatientInv'
  <1> SUFFICES ASSUME Undisturbed, IInv, PatientInv, [Next]_vars PROVE PatientInv'
    OBVIOUS
  <1>1. ASSUME NEW j \in Job, Continue(j) PROVE PatientInv'
    BY <1>1, StillPatient, ServeRunPatient, ShowResultPatient, RefreshedPatient, FoundPatient,
       ShowPatient, ServeMovePatient, NoGoToFails
       DEF Continue
  <1>2. ~\E e \in Env : OtherEdit(e)
    BY DEF OtherEdit, Undisturbed
  <1>3. CASE Rest
    BY <1>3, StutterPatient DEF Rest
  <1> QED
    BY <1>1, <1>2, <1>3, ClickPatient, DetachedPatient, StutterPatient DEF Next

(* Undisturbed, a user who waits sees the current version of the environment  *)
(* on screen whenever nothing is running.                                     *)
THEOREM ScreenStaysCurrent ==
    ASSUME Undisturbed
    PROVE  Spec => []ScreenIsCurrent
  <1>1. IInv /\ PatientInv => ScreenIsCurrent
    <2> SUFFICES ASSUME IInv, PatientInv, \A j \in Job : ~Running(j)
                 PROVE  environmentVersion = CurrentRow(environmentVersion.env)
      BY DEF ScreenIsCurrent
    <2>1. IsCurrent(environmentVersion) /\ environmentVersion.env \in Env
      BY NoJobTypes DEF PatientInv, Page, Awaited, Ahead, Moves, IInv, TypeOK, Version
    <2> QED
      BY <2>1, Current DEF IsCurrent
  <1>2. IInv /\ PatientInv /\ [Next]_vars => PatientInv'
    BY NextPatient
  <1> QED
    BY <1>1, <1>2, InitPatient, Invariant, PTL DEF Spec

(* Undisturbed, the versions a user who waits undoes and redoes to are of the *)
(* environment on screen.                                                     *)
THEOREM MovesStayInEnvironment ==
    ASSUME Undisturbed
    PROVE  Spec => []UndoStaysInEnvironment
  <1>1. PatientInv => UndoStaysInEnvironment
    <2> SUFFICES ASSUME PatientInv, NEW j \in Job, At(j, Moves, "layout")
                 PROVE  job[j].ev.env = environmentVersion.env
      BY DEF UndoStaysInEnvironment
    <2>1. Running(j) /\ job[j].kind \in Moves /\ job[j].step = "layout"
      BY DEF At, Running, Moves
    <2>2. lookups = {} /\ Page(job[j]) /\ KnowsMove(job[j])
      BY <2>1, RunsAlone
    <2>3. Target(job[j]) = job[j].ev /\ Target(job[j]) # NoVersion
      BY <2>1, <2>2 DEF KnowsMove
    <2>4. OptHere(previousState) /\ OptHere(nextState)
      BY <2>1, <2>2 DEF Page, Awaited, Moves
    <2> QED
      BY <2>3, <2>4 DEF Target, OptHere, Here
  <1>2. IInv /\ PatientInv /\ [Next]_vars => PatientInv'
    BY NextPatient
  <1> QED
    BY <1>1, <1>2, InitPatient, Invariant, PTL DEF Spec

(* Undisturbed, every edit of a user who waits is applied to the current      *)
(* version.                                                                   *)
THEOREM EditsAreForCurrent ==
    ASSUME Undisturbed
    PROVE  Spec => AppliesToCurrent
  <1>1. ASSUME IInv, PatientInv, NEW j \in Job, ServeRun(j)
        PROVE  Base(j) = CurrentRow(job[j].env)
    <2>1. Running(j) /\ Asked(j)
      BY <1>1 DEF ServeRun, Asked, At, Running
    <2> QED
      BY <1>1, <2>1, RunsAlone, CurrentBase
  <1>2. IInv /\ PatientInv /\ [Next]_vars =>
          [\A j \in Job : ServeRun(j) => Base(j) = CurrentRow(job[j].env)]_vars
    BY <1>1
  <1>3. IInv /\ PatientInv /\ [Next]_vars => PatientInv'
    BY NextPatient
  <1> QED
    BY <1>2, <1>3, InitPatient, Invariant, PTL DEF Spec, AppliesToCurrent

-----------------------------------------------------------------------------
(* What the flag says of the versions after the one on screen, for as long as *)
(* no refresh looks for the neighbours of a version that others follow: the   *)
(* page was opened on the first version, no run fails and the user stays in   *)
(* the environment.                                                           *)
Unrefreshed == "switch" \notin Ops /\ "run" \notin Faults /\ Earlier = 0

NothingAfter(v) == After(v.env, v.version) = {}

Unseen(w) == w.kind \in {"apply", "chat"} /\ w.step = "answered"

(* What holds while w runs.                                                   *)
Flagged(w) ==
    /\ w.kind # "switch"
    /\ Unseen(w) => NothingAfter(w.answer)
    /\ ~Unseen(w) /\ ~willOverwriteState => NothingAfter(environmentVersion)
    /\ w.kind = "apply" /\ w.step = "sent" => w.overwrite \/ NothingAfter(environmentVersion)
    /\ w.kind = "redo" /\ w.step = "asked" => w.version = environmentVersion.version
    /\ w.kind = "redo" /\ w.step = "found" /\ w.answer = NoVersion =>
          NothingAfter(environmentVersion)

FlagInv ==
    /\ nextState # NoVersion => willOverwriteState
    /\ \A j \in Job : Running(j) => Flagged(job[j])
    /\ (\A j \in Job : ~Running(j)) => Flagged(NoJob)
    /\ \A l \in lookups : l.next = NoVersion
    /\ lookups # {} => NothingAfter(environmentVersion)

LEMMA InitFlag == Unrefreshed /\ Init => FlagInv
  <1> SUFFICES ASSUME Unrefreshed, Init PROVE FlagInv
    OBVIOUS
  <1>1. /\ rows = {FirstVersion(e) : e \in Env} \cup {EarlierVersion(0)}
        /\ environmentVersion = EarlierVersion(0)
        /\ lookups = {LookupOf(EarlierVersion(0))}
    <2>1. 0..0 = {0}
      OBVIOUS
    <2>2. PICK n \in 0..0 :
            /\ rows = {FirstVersion(e) : e \in Env} \cup {EarlierVersion(i) : i \in 0..n}
            /\ \E c \in 0..n : /\ environmentVersion = EarlierVersion(c)
                               /\ lookups = {LookupOf(EarlierVersion(c))}
      BY DEF Init, Unrefreshed
    <2> QED
      BY <2>1, <2>2
  <1>2. \A r \in rows : r.version = 0
    BY <1>1 DEF FirstVersion, EarlierVersion
  <1>3. NothingAfter(environmentVersion)
    BY <1>1, <1>2 DEF NothingAfter, After, RowsOf, EarlierVersion
  <1>4. nextState = NoVersion /\ \A j \in Job : ~Running(j)
    BY NoJobTypes DEF Init, Running
  <1>5. \A l \in lookups : l.next = NoVersion
    BY <1>1 DEF LookupOf
  <1> QED
    BY <1>3, <1>4, <1>5, NoJobTypes DEF FlagInv, Flagged, Unseen

(* What has to be shown of a step of a job.                                   *)
LEMMA OneFlagged ==
    ASSUME IInv, PatientInv, NEW j \in Job, NEW w, job' = [job EXCEPT ![j] = w],
           \A i \in Job \ {j} : ~Running(i), lookups' = {},
           nextState' # NoVersion => willOverwriteState', Flagged(w)',
           w.kind = "none" => w = NoJob
    PROVE  FlagInv'
  <1>1. job'[j] = w /\ \A i \in Job \ {j} : job'[i] = job[i]
    BY DEF IInv, TypeOK
  <1>2. \A i \in Job : Running(i)' => i = j /\ w.kind # "none"
    BY <1>1 DEF Running
  <1>3. \A i \in Job : Running(i)' => Flagged(job[i])'
    BY <1>1, <1>2 DEF Flagged, Unseen, NothingAfter, After, RowsOf
  <1>4. (\A i \in Job : ~Running(i)') => Flagged(NoJob)'
    BY <1>1 DEF Running
  <1> QED
    BY <1>2, <1>3, <1>4 DEF FlagInv

LEMMA SameFlag ==
    ASSUME Still, NEW w
    PROVE  Flagged(w)' <=> Flagged(w)
  BY DEF Still, server, neighbours, Flagged, Unseen, NothingAfter, After, RowsOf

LEMMA StillFlagged ==
    ASSUME IInv, PatientInv, FlagInv, Still, NEW j \in Job, NEW w,
           job' = [job EXCEPT ![j] = w], \A i \in Job \ {j} : ~Running(i), lookups = {},
           Flagged(w), w.kind = "none" => w = NoJob
    PROVE  FlagInv'
  <1>1. Flagged(w)' /\ lookups' = {} /\ (nextState' # NoVersion => willOverwriteState')
    BY SameFlag DEF Still, neighbours, FlagInv
  <1> QED
    BY <1>1, OneFlagged

(* A version that nothing follows has no next one, and only such a version.   *)
LEMMA Least ==
    ASSUME NEW T, T \subseteq Nat, T # {}
    PROVE  \E m \in T : \A n \in T : m <= n
  <1>1. PICK m \in T : \A n \in T : ~(<<n, m>> \in OpToRel(<, Nat))
    BY WFMin, NatLessThanWellFounded
  <1>2. \A k \in Nat, n \in Nat : k < n => <<k, n>> \in OpToRel(<, Nat)
    BY Zenon DEF OpToRel
  <1>3. \A n \in T : ~(n < m)
    BY <1>1, <1>2
  <1> QED
    BY <1>3

LEMMA NoneNext ==
    ASSUME IInv, NEW e, NEW n, NextRow(e, n) = NoVersion
    PROVE  After(e, n) = {}
  <1> SUFFICES ASSUME After(e, n) # {} PROVE FALSE
    OBVIOUS
  <1>1. After(e, n) \subseteq Version /\ \A r \in After(e, n) : r.version \in Nat
    BY BoundsAssumption DEF IInv, TypeOK, After, RowsOf, Version, Number
  <1> DEFINE T == {r.version : r \in After(e, n)}
  <1>2. T \subseteq Nat /\ T # {}
    BY <1>1
  <1>3. PICK m \in T : \A k \in T : m <= k
    BY <1>2, Least
  <1>4. PICK r \in After(e, n) : r.version = m
    BY <1>3
  <1>5. r \in {q \in After(e, n) : \A s \in After(e, n) : q.version <= s.version}
    BY <1>3, <1>4
  <1>6. NextRow(e, n) \in After(e, n)
    BY <1>5, OnlyOf DEF NextRow
  <1> QED
    BY <1>1, <1>6, EnvAssumption

LEMMA NoNext ==
    ASSUME NEW v, NothingAfter(v)
    PROVE  NextRow(v.env, v.version) = NoVersion
  BY DEF NothingAfter, NextRow, Only

(* The clicks.                                                                *)
LEMMA ClickFlag ==
    ASSUME Undisturbed, Unrefreshed, IInv, PatientInv, FlagInv, NEW j \in Job, Click(j)
    PROVE  FlagInv'
  <1>1. ~Unseen(NoJob) /\ ~ChangeEnvironment(j)
    BY NoJobTypes DEF Unseen, ChangeEnvironment, MayClick, MayStart, Unrefreshed
  <1>2. ASSUME NEW op, MayStart(op, j), Still, NEW w, job' = [job EXCEPT ![j] = w],
               w.kind \in {"apply", "chat", "undo", "redo"}, w.step \in {"token", "layout"}
        PROVE  FlagInv'
    <2>1. (\A i \in Job : ~Running(i)) /\ lookups = {}
      BY <1>2, Clicked
    <2>2. ~willOverwriteState => NothingAfter(environmentVersion)
      BY <1>1, <2>1 DEF FlagInv, Flagged
    <2>3. Flagged(w)
      BY <1>2, <2>2 DEF Flagged, Unseen
    <2> QED
      BY <1>2, <2>1, <2>3, StillFlagged
  <1>3. CASE Apply(j)
    <2>1. PICK w : w = [NoJob EXCEPT
                  !.kind = "apply", !.step = "token", !.ev = environmentVersion,
                  !.env = environmentVersion.env, !.version = environmentVersion.version,
                  !.edits = unappliedConstraints \cup {made'}]
      OBVIOUS
    <2>2. w.kind = "apply" /\ w.step = "token"
      BY <2>1 DEF NoJob
    <2>3. MayStart("apply", j) /\ Still /\ job' = [job EXCEPT ![j] = w]
      BY <1>3, <2>1 DEF Apply, Still, neighbours
    <2> QED
      BY <1>2, <2>2, <2>3
  <1>4. CASE SendChatMessage(j)
    <2>1. PICK w : w = [NoJob EXCEPT !.kind = "chat", !.step = "token", !.edits = {made'}]
      OBVIOUS
    <2>2. w.kind = "chat" /\ w.step = "token"
      BY <2>1 DEF NoJob
    <2>3. MayStart("chat", j) /\ Still /\ job' = [job EXCEPT ![j] = w]
      BY <1>4, <2>1 DEF SendChatMessage, Still, screen
    <2> QED
      BY <1>2, <2>2, <2>3
  <1>5. ASSUME NEW kind \in Moves, NEW target, GoTo(j, kind, target)
        PROVE  FlagInv'
    <2>1. PICK w : w = [NoJob EXCEPT !.kind = kind, !.step = "layout", !.ev = target]
      OBVIOUS
    <2>2. w.kind = kind /\ w.step = "layout"
      BY <2>1 DEF NoJob
    <2>3. MayStart(kind, j) /\ Still /\ job' = [job EXCEPT ![j] = w]
      BY <1>5, <2>1 DEF GoTo, MayClick, Still, screen
    <2> QED
      BY <1>2, <2>2, <2>3 DEF Moves
  <1> QED
    BY <1>1, <1>3, <1>4, <1>5 DEF Click, GoToPreviousState, GoToNextState, Moves

(* The steps of a job that leave the versions and the page alone.             *)
LEMMA StillFlag ==
    ASSUME Undisturbed, Unrefreshed, IInv, PatientInv, FlagInv, NEW j \in Job,
           \/ SendRun(j) \/ SendChat(j) \/ ReadForChat(j)
           \/ SendMove(j) \/ Moved(j) \/ AskBeyond(j) \/ ServeBeyond(j)
    PROVE  FlagInv'
  <1>1. Running(j) /\ job[j] \in JobState /\ Still
    BY JobOf DEF Running, At, Moves, Still, screen,
        SendRun, SendChat, ReadForChat, SendMove, Moved, AskBeyond, ServeBeyond
  <1>2. /\ \A i \in Job \ {j} : ~Running(i)
        /\ lookups = {} /\ KnowsMove(job[j]) /\ Flagged(job[j])
    BY <1>1, RunsAlone DEF FlagInv
  <1>3. PICK u \in JobState : u = job[j]
    BY <1>1
  <1>4. Flagged(u) /\ KnowsMove(u)
    BY <1>2, <1>3
  <1>5. ASSUME NEW w, job' = [job EXCEPT ![j] = w], w.kind # "none", Flagged(w)
        PROVE  FlagInv'
    BY <1>1, <1>2, <1>5, StillFlagged
  <1>6. ASSUME ~Unseen(u)
        PROVE  ~willOverwriteState => NothingAfter(environmentVersion)
    BY <1>4, <1>6 DEF Flagged
  <1>7. CASE SendRun(j)
    <2>1. PICK w : w = [u EXCEPT !.step = "sent", !.overwrite = willOverwriteState]
      OBVIOUS
    <2>2. job' = [job EXCEPT ![j] = w] /\ u.kind = "apply" /\ u.step = "token"
      BY <1>3, <1>7, <2>1 DEF SendRun, At
    <2>3. w.kind = "apply" /\ w.step = "sent" /\ w.overwrite = willOverwriteState
      BY <2>1, <2>2 DEF JobState
    <2>4. Flagged(w)
      BY <1>6, <2>2, <2>3 DEF Flagged, Unseen
    <2> QED
      BY <1>5, <2>2, <2>3, <2>4
  <1>8. CASE SendChat(j)
    <2>1. PICK w : w = [u EXCEPT !.step = "sent", !.env = environmentVersion.env]
      OBVIOUS
    <2>2. job' = [job EXCEPT ![j] = w] /\ u.kind = "chat" /\ u.step = "token"
      BY <1>3, <1>8, <2>1 DEF SendChat, At
    <2>3. w.kind = "chat" /\ w.step = "sent"
      BY <2>1, <2>2 DEF JobState
    <2> QED
      BY <1>5, <1>6, <2>2, <2>3 DEF Flagged, Unseen
  <1>9. CASE ReadForChat(j)
    <2>1. PICK w : w = [u EXCEPT !.step = "query", !.version = current[u.env]]
      OBVIOUS
    <2>2. job' = [job EXCEPT ![j] = w] /\ u.kind = "chat" /\ u.step = "sent"
      BY <1>3, <1>9, <2>1 DEF ReadForChat, At
    <2>3. w.kind = "chat" /\ w.step = "query"
      BY <2>1, <2>2 DEF JobState
    <2> QED
      BY <1>5, <1>6, <2>2, <2>3 DEF Flagged, Unseen
  <1>10. CASE SendMove(j)
    <2>1. PICK w : w = [u EXCEPT !.step = "sent", !.version = Goal(j).version]
      OBVIOUS
    <2>2. job' = [job EXCEPT ![j] = w] /\ u.kind \in Moves
      BY <1>3, <1>10, <2>1 DEF SendMove, At
    <2>3. w.kind = u.kind /\ w.step = "sent"
      BY <2>1, <2>2 DEF JobState
    <2> QED
      BY <1>5, <1>6, <2>2, <2>3 DEF Flagged, Unseen, Moves
  <1>11. CASE Moved(j)
    <2>1. PICK w : w = [u EXCEPT !.step = "beyond", !.env = environmentVersion.env]
      OBVIOUS
    <2>2. job' = [job EXCEPT ![j] = w] /\ u.kind \in Moves
      BY <1>3, <1>11, <2>1 DEF Moved, At
    <2>3. w.kind = u.kind /\ w.step = "beyond"
      BY <2>1, <2>2 DEF JobState
    <2> QED
      BY <1>5, <1>6, <2>2, <2>3 DEF Flagged, Unseen, Moves
  <1>12. CASE AskBeyond(j)
    <2>1. PICK w : w = [u EXCEPT !.step = "asked", !.version = Goal(j).version]
      OBVIOUS
    <2>2. /\ job' = [job EXCEPT ![j] = w] /\ u.kind \in Moves /\ u.step = "beyond"
          /\ Goal(j) = Target(u)
      BY <1>3, <1>12, <2>1 DEF AskBeyond, At, Goal, Target
    <2>3. w.kind = u.kind /\ w.step = "asked" /\ w.version = environmentVersion.version
      BY <1>4, <2>1, <2>2 DEF JobState, KnowsMove
    <2> QED
      BY <1>5, <1>6, <2>2, <2>3 DEF Flagged, Unseen, Moves
  <1>13. CASE ServeBeyond(j)
    <2>1. PICK a : a = IF u.kind = "undo" THEN PrevRow(u.env, u.version)
                       ELSE NextRow(u.env, u.version)
      OBVIOUS
    <2>2. PICK w : w = [u EXCEPT !.step = "found", !.answer = a]
      OBVIOUS
    <2>3. u.kind \in Moves /\ u.step = "asked" /\ u.env = environmentVersion.env
      BY <1>3, <1>4, <1>13 DEF ServeBeyond, At, KnowsMove
    <2>4. job' = [job EXCEPT ![j] = w]
      BY <1>3, <1>13, <2>1, <2>2 DEF ServeBeyond, Undisturbed
    <2>5. w.kind = u.kind /\ w.step = "found" /\ w.answer = a
      BY <2>2, <2>3 DEF JobState
    <2>6. w.kind = "redo" /\ a = NoVersion => NothingAfter(environmentVersion)
      BY <1>4, <2>1, <2>3, <2>5, NoneNext DEF Flagged, NothingAfter
    <2>7. Flagged(w)
      BY <1>6, <2>3, <2>5, <2>6 DEF Flagged, Unseen, Moves
    <2> QED
      BY <1>5, <2>3, <2>4, <2>5, <2>7 DEF Moves
  <1> QED
    BY <1>7, <1>8, <1>9, <1>10, <1>11, <1>12, <1>13

(* The steps of a job that do not happen.                                     *)
LEMMA NoFailures ==
    ASSUME Undisturbed, Unrefreshed, IInv, PatientInv, FlagInv, NEW j \in Job
    PROVE  /\ ~RefuseRun(j) /\ ~ChatFails(j) /\ ~ApplyFails(j) /\ ~ServeGet(j)
           /\ ~Refreshed(j) /\ ~RefreshFails(j) /\ ~RefuseMove(j) /\ ~GoToFails(j)
  <1>1. ASSUME Running(j)
        PROVE  Page(job[j]) /\ KnowsRun(job[j]) /\ job[j].kind # "switch"
    BY <1>1, RunsAlone DEF FlagInv, Flagged
  <1>2. ~RefuseRun(j)
    <2> SUFFICES ASSUME RefuseRun(j) PROVE FALSE
      OBVIOUS
    <2>1. Running(j) /\ Asked(j)
      BY DEF RefuseRun, Asked, At, Running
    <2> QED
      BY <1>1, <2>1, CurrentBase DEF RefuseRun, Unrefreshed
  <1>3. ~ChatFails(j) /\ ~ApplyFails(j)
    BY <1>1 DEF ChatFails, ApplyFails, At, Running, KnowsRun, Unrefreshed
  <1>4. ~ServeGet(j) /\ ~Refreshed(j) /\ ~RefreshFails(j)
    BY <1>1 DEF ServeGet, Refreshed, RefreshFails, At, Running, KnowsRun, Unrefreshed
  <1>5. ~RefuseMove(j)
    BY DEF RefuseMove, Undisturbed
  <1> QED
    BY <1>2, <1>3, <1>4, <1>5, NoGoToFails

(* The row an accepted run adds is the last one.                              *)
LEMMA AnswerIsLast ==
    ASSUME IInv, NEW j \in Job, ServeRun(j), NEW q, q = NewRow(Base(j), job[j].edits)
    PROVE  NothingAfter(q)'
  <1>1. Base(j) \in rows /\ Base(j).env = job[j].env /\ Base(j).env \in Env
    BY BaseIsRow, JobOf DEF ServeRun, Base, JobState
  <1>2. /\ LatestNumber(Base(j).env) \in Nat
        /\ \A s \in rows : s.env = Base(j).env => s.version <= LatestNumber(Base(j).env)
    BY <1>1, Latest
  <1>3. q.env = Base(j).env /\ q.version = LatestNumber(Base(j).env) + 1
    BY DEF NewRow
  <1>4. rows' \subseteq rows \cup {q}
    BY DEF ServeRun, CommitRun
  <1>5. \A s \in rows : s.version \in Nat
    BY BoundsAssumption DEF IInv, TypeOK, Version, Number
  <1>6. \A s \in rows' : s.env = q.env => ~(s.version > q.version)
    BY <1>2, <1>3, <1>4, <1>5
  <1> QED
    BY <1>6 DEF NothingAfter, After, RowsOf

(* The steps that change the versions or the page.                            *)
LEMMA PageFlag ==
    ASSUME Undisturbed, Unrefreshed, IInv, PatientInv, FlagInv, NEW j \in Job,
           ServeRun(j) \/ ShowResult(j) \/ Show(j) \/ ServeMove(j) \/ Found(j)
    PROVE  FlagInv'
  <1>1. Running(j) /\ job[j] \in JobState
    BY JobOf DEF Running, At, Asked, Moves, ServeRun, ShowResult, Show, ServeMove, Found
  <1>2. /\ \A i \in Job \ {j} : ~Running(i)
        /\ lookups = {} /\ KnowsMove(job[j]) /\ Flagged(job[j])
    BY <1>1, RunsAlone DEF FlagInv
  <1>3. PICK u \in JobState : u = job[j]
    BY <1>1
  <1>4. Flagged(u) /\ KnowsMove(u) /\ (nextState # NoVersion => willOverwriteState)
    BY <1>2, <1>3 DEF FlagInv
  <1>5. lookups' = {}
    BY <1>2 DEF ServeRun, ShowResult, Show, ServeMove, Found
  <1>6. CASE ServeRun(j)
    <2>1. PICK q : q = NewRow(Base(j), job[j].edits)
      OBVIOUS
    <2>2. PICK w : w = [u EXCEPT !.step = "answered", !.answer = q]
      OBVIOUS
    <2>3. job' = [job EXCEPT ![j] = w]
      BY <1>3, <1>6, <2>1, <2>2 DEF ServeRun, Unrefreshed
    <2>4. w.kind = u.kind /\ w.step = "answered" /\ w.answer = q
          /\ u.kind \in {"apply", "chat"}
      BY <1>3, <1>6, <2>2 DEF JobState, ServeRun, Asked, At
    <2>5. NothingAfter(q)'
      BY <1>6, <2>1, AnswerIsLast
    <2>6. Flagged(w)'
      BY <2>4, <2>5 DEF Flagged, Unseen, NothingAfter
    <2>7. nextState' = nextState /\ willOverwriteState' = willOverwriteState
      BY <1>6 DEF ServeRun, screen, neighbours
    <2> QED
      BY <1>2, <1>4, <1>5, <2>3, <2>4, <2>6, <2>7, OneFlagged
  <1>7. CASE ShowResult(j)
    <2>1. Ends(j) /\ nextState' = NoVersion /\ rows' = rows /\ environmentVersion' = u.answer
          /\ Unseen(u)
      BY <1>3, <1>7 DEF ShowResult, server, Unseen, At
    <2>2. NothingAfter(environmentVersion)'
      BY <1>4, <2>1 DEF Flagged, NothingAfter, After, RowsOf
    <2>3. Flagged(NoJob)'
      BY <2>2, NoJobTypes DEF Flagged, Unseen
    <2> QED
      BY <1>2, <1>5, <2>1, <2>3, OneFlagged DEF Ends
  <1>8. CASE Show(j)
    <2>1. PICK w : w = [u EXCEPT !.step = "token", !.env = u.ev.env]
      OBVIOUS
    <2>2. job' = [job EXCEPT ![j] = w] /\ u.kind \in Moves /\ u.step = "layout"
      BY <1>3, <1>8, <2>1 DEF Show, At
    <2>3. w.kind = u.kind /\ w.step = "token"
      BY <2>1, <2>2 DEF JobState
    <2>4. u.kind = "redo" => willOverwriteState
      BY <1>4, <2>2 DEF KnowsMove, Target
    <2>5. willOverwriteState' = TRUE
      BY <1>3, <1>8, <2>2, <2>4 DEF Show, Moves, IInv, TypeOK
    <2>6. Flagged(w)'
      BY <2>2, <2>3, <2>5 DEF Flagged, Unseen, Moves
    <2> QED
      BY <1>2, <1>5, <2>2, <2>3, <2>5, <2>6, OneFlagged DEF Moves
  <1>9. CASE ServeMove(j)
    <2>1. PICK w : w = [u EXCEPT !.step = "moved"]
      OBVIOUS
    <2>2. job' = [job EXCEPT ![j] = w] /\ u.kind \in Moves /\ u.step = "sent"
      BY <1>3, <1>9, <2>1 DEF ServeMove, At, Goes, Undisturbed
    <2>3. w.kind = u.kind /\ w.step = "moved"
      BY <2>1, <2>2 DEF JobState
    <2>4. /\ rows' = rows /\ environmentVersion' = environmentVersion
          /\ nextState' = nextState /\ willOverwriteState' = willOverwriteState
      BY <1>9 DEF ServeMove, screen, neighbours
    <2>5. ~willOverwriteState => NothingAfter(environmentVersion)
      BY <1>4, <2>2 DEF Flagged, Unseen, Moves
    <2>6. Flagged(w)'
      BY <2>2, <2>3, <2>4, <2>5 DEF Flagged, Unseen, Moves, NothingAfter, After, RowsOf
    <2> QED
      BY <1>2, <1>4, <1>5, <2>2, <2>3, <2>4, <2>6, OneFlagged DEF Moves
  <1>10. CASE Found(j)
    <2>1. Ends(j) /\ rows' = rows /\ environmentVersion' = environmentVersion
          /\ u.kind \in Moves /\ u.step = "found"
      BY <1>3, <1>10 DEF Found, server, At
    <2>2. /\ nextState' # NoVersion => willOverwriteState'
          /\ ~willOverwriteState' => NothingAfter(environmentVersion)
      <3>1. CASE u.kind = "undo"
        <4>1. nextState' = nextState /\ willOverwriteState' = willOverwriteState
          BY <1>3, <1>10, <3>1 DEF Found
        <4> QED
          BY <1>4, <2>1, <3>1, <4>1 DEF Flagged, Unseen
      <3>2. CASE u.kind = "redo"
        <4>1. nextState' = u.answer /\ willOverwriteState' = (u.answer # NoVersion)
          BY <1>3, <1>10, <3>2 DEF Found
        <4> QED
          BY <1>4, <2>1, <3>2, <4>1 DEF Flagged
      <3> QED
        BY <2>1, <3>1, <3>2 DEF Moves
    <2>3. Flagged(NoJob)'
      BY <2>1, <2>2, NoJobTypes DEF Flagged, Unseen, NothingAfter, After, RowsOf
    <2> QED
      BY <1>2, <1>5, <2>1, <2>2, <2>3, OneFlagged DEF Ends
  <1> QED
    BY <1>6, <1>7, <1>8, <1>9, <1>10

(* The lookups of the page that was just opened.                              *)
LEMMA DetachedFlag ==
    ASSUME Undisturbed, IInv, PatientInv, FlagInv, NEW l \in lookups, Detached(l)
    PROVE  FlagInv'
  <1>1. /\ \A j \in Job : ~Running(j)
        /\ job' = job /\ rows' = rows /\ environmentVersion' = environmentVersion
    BY DEF PatientInv, Detached, LookupNext, LookupPrev, LookupDone, LookupFails, screen, server
  <1>2. NothingAfter(environmentVersion) /\ l.next = NoVersion /\ l.of = environmentVersion
        /\ l \in Lookup
    BY DEF FlagInv, PatientInv, SoughtHere, IInv, TypeOK
  <1>3. NothingAfter(environmentVersion)'
    BY <1>1, <1>2 DEF NothingAfter, After, RowsOf
  <1>4. Flagged(NoJob)' /\ \A j \in Job : ~Running(j)'
    BY <1>1, <1>3, NoJobTypes DEF Flagged, Unseen, Running
  <1>5. ASSUME \A k \in lookups' : k.next = NoVersion,
               nextState' # NoVersion => willOverwriteState'
        PROVE  FlagInv'
    BY <1>3, <1>4, <1>5 DEF FlagInv
  <1>6. CASE LookupNext(l)
    <2>1. PICK k : k = [l EXCEPT !.step = "prev", !.next = NextRow(l.of.env, l.of.version)]
      OBVIOUS
    <2>2. k.next = NoVersion
      BY <1>2, <2>1, NoNext DEF Lookup
    <2>3. lookups' = (lookups \ {l}) \cup {k}
      BY <1>6, <2>1 DEF LookupNext
    <2> QED
      BY <1>5, <1>6, <2>2, <2>3 DEF FlagInv, LookupNext, screen, neighbours
  <1>7. CASE LookupPrev(l)
    <2>1. PICK k : k = [l EXCEPT !.step = "done", !.prev = PrevRow(l.of.env, l.of.version)]
      OBVIOUS
    <2>2. k.next = NoVersion
      BY <1>2, <2>1 DEF Lookup
    <2>3. lookups' = (lookups \ {l}) \cup {k}
      BY <1>7, <2>1 DEF LookupPrev
    <2> QED
      BY <1>5, <1>7, <2>2, <2>3 DEF FlagInv, LookupPrev, screen, neighbours
  <1>8. CASE LookupDone(l)
    <2>1. nextState' = NoVersion /\ lookups' = lookups \ {l}
      BY <1>2, <1>8 DEF LookupDone
    <2> QED
      BY <1>5, <2>1 DEF FlagInv
  <1>9. ~LookupFails(l)
    BY DEF LookupFails, Undisturbed
  <1> QED
    BY <1>6, <1>7, <1>8, <1>9 DEF Detached

LEMMA StutterFlag == ASSUME FlagInv, UNCHANGED vars PROVE FlagInv'
  <1>1. /\ Still /\ job' = job /\ lookups' = lookups /\ rows' = rows
        /\ environmentVersion' = environmentVersion
        /\ nextState' = nextState /\ willOverwriteState' = willOverwriteState
    BY DEF vars, Still, screen, neighbours, server
  <1>2. \A j \in Job : Running(j)' => Flagged(job[j])'
    BY <1>1 DEF FlagInv, Running, Flagged, Unseen, NothingAfter, After, RowsOf
  <1>3. (\A j \in Job : ~Running(j)') => Flagged(NoJob)'
    BY <1>1, SameFlag DEF FlagInv, Running
  <1>4. lookups' # {} => NothingAfter(environmentVersion)'
    BY <1>1 DEF FlagInv, NothingAfter, After, RowsOf
  <1> QED
    BY <1>1, <1>2, <1>3, <1>4 DEF FlagInv

LEMMA NextFlag ==
    Undisturbed /\ Unrefreshed /\ IInv /\ PatientInv /\ FlagInv /\ [Next]_vars => FlagInv'
  <1> SUFFICES ASSUME Undisturbed, Unrefreshed, IInv, PatientInv, FlagInv, [Next]_vars
               PROVE  FlagInv'
    OBVIOUS
  <1>1. ASSUME NEW j \in Job, Continue(j) PROVE FlagInv'
    BY <1>1, StillFlag, PageFlag, NoFailures DEF Continue
  <1>2. ~\E e \in Env : OtherEdit(e)
    BY DEF OtherEdit, Undisturbed
  <1>3. CASE Rest
    BY <1>3, StutterFlag DEF Rest
  <1> QED
    BY <1>1, <1>2, <1>3, ClickFlag, DetachedFlag, StutterFlag DEF Next

(* A run that overwrites what follows its version, or that nothing follows,   *)
(* leaves the version right before the new one.                               *)
LEMMA BackToBase ==
    ASSUME IInv, NEW r \in rows, NEW adds, NEW overwrite \in BOOLEAN,
           CommitRun(r, adds, overwrite), overwrite \/ NothingAfter(r)
    PROVE  PrevRow(r.env, current[r.env])' = r
  <1> DEFINE q == NewRow(r, adds)
  <1>1. r.env \in Env /\ \A s \in rows : s.version \in Nat
    BY BoundsAssumption DEF IInv, TypeOK, Version, Number
  <1>2. /\ LatestNumber(r.env) \in Nat
        /\ \A s \in rows : s.env = r.env => s.version <= LatestNumber(r.env)
    BY <1>1, Latest
  <1>3. q.env = r.env /\ q.version = LatestNumber(r.env) + 1
    BY DEF NewRow
  <1>4. rows' = (rows \ After(r.env, r.version)) \cup {q}
    BY DEF CommitRun, NothingAfter
  <1>5. current'[r.env] = q.version
    BY <1>1 DEF CommitRun, IInv, TypeOK
  <1> DEFINE B == {s \in rows' : s.env = r.env /\ s.version < q.version}
  <1>6. r \in B
    BY <1>1, <1>2, <1>3, <1>4 DEF After, RowsOf
  <1>7. \A s \in B : s \in rows /\ s.env = r.env /\ s.version <= r.version
    BY <1>1, <1>2, <1>3, <1>4 DEF After, RowsOf
  <1>8. \A s \in B : s.version = r.version => s = r
    BY <1>7, OneRow
  <1>9. {s \in B : \A t \in B : s.version >= t.version} = {r}
    <2>1. \A s \in B : (\A t \in B : s.version >= t.version) => s = r
      BY <1>1, <1>6, <1>7, <1>8
    <2>2. \A t \in B : r.version >= t.version
      BY <1>1, <1>7
    <2> QED
      BY <1>6, <2>1, <2>2
  <1>10. Before(r.env, current[r.env])' = B
    BY <1>5 DEF Before, RowsOf
  <1> HIDE DEF B
  <1>11. Only({r}) = r
    BY DEF Only
  <1> QED
    BY <1>9, <1>10, <1>11 DEF PrevRow, Only

(* Undisturbed and with no refresh, undo of an edit leads back to the version *)
(* it was made on (willOverwriteState, do_run, get_previous_state).           *)
THEOREM UndoOfAnEdit ==
    ASSUME Undisturbed, Unrefreshed
    PROVE  Spec => UndoComesBack
  <1>1. ASSUME IInv, PatientInv, FlagInv, NEW j \in Job, NEW r \in rows,
               At(j, {"apply"}, "sent"), ServeRun(j), Base(j) = r
        PROVE  PrevRow(r.env, current[r.env])' = r
    <2>1. Running(j) /\ Asked(j) /\ job[j].kind = "apply" /\ job[j].step = "sent"
      BY <1>1 DEF Asked, At, Running
    <2>2. r = environmentVersion
      BY <1>1, <2>1, RunsAlone, CurrentBase
    <2>3. job[j].overwrite \/ NothingAfter(environmentVersion)
      BY <1>1, <2>1 DEF FlagInv, Flagged
    <2>4. CommitRun(r, job[j].edits, job[j].overwrite)
      BY <1>1 DEF ServeRun
    <2>5. job[j].overwrite \in BOOLEAN
      BY <1>1, JobOf DEF JobState
    <2> QED
      BY <1>1, <2>2, <2>3, <2>4, <2>5, BackToBase
  <1>2. IInv /\ PatientInv /\ FlagInv =>
          [\A j \in Job, r \in rows :
              At(j, {"apply"}, "sent") /\ ServeRun(j) /\ Base(j) = r =>
                  PrevRow(r.env, current[r.env])' = r]_vars
    BY <1>1
  <1>3. IInv /\ PatientInv /\ [Next]_vars => PatientInv'
    BY NextPatient
  <1>4. IInv /\ PatientInv /\ FlagInv /\ [Next]_vars => FlagInv'
    BY NextFlag
  <1>5. Init => PatientInv /\ FlagInv
    BY InitPatient, InitFlag
  <1> QED
    BY <1>2, <1>3, <1>4, <1>5, Invariant, PTL DEF Spec, UndoComesBack
=============================================================================
