-------------------- MODULE ArchitectureLifecycleProofs --------------------
(* Proofs about ArchitectureLifecycle, for any requests, users, uuids and     *)
(* versions: the types, that versions keep their states, that nothing of a    *)
(* deleted architecture comes back, that rows and roles agree, that a clone is*)
(* what its source was.                                                       *)
EXTENDS ArchitectureLifecycle, TLAPS

-----------------------------------------------------------------------------
(* Types.  A creation makes one architecture and rows of that one; a renaming *)
(* and an edit write rows of the architecture they are for.                   *)
Creates(r) == r.kind \in {"create", "clone"}

Shape(r) ==
    /\ Creates(r) => \E x \in Architecture :
          /\ r.new = {x}
          /\ \A e \in r.addEnvironments : e.architecture = x.id
          /\ \A v \in r.addVersions : v.path[1] = x.id
    /\ r.kind \in {"clone", "rename", "delete", "edit"} => r.arch \in Arch
    /\ r.kind = "rename" => \E x \in Architecture : r.new = {x} /\ x.id = r.arch
    /\ r.kind = "edit" =>
          /\ \A e \in r.addEnvironments : e.architecture = r.arch
          /\ \A v \in r.addVersions : v.path[1] = r.arch

TypeInv == TypeOK /\ \A s \in Slot : Shape(request[s])

LEMMA NoRequestTypes == NoRequest \in Request /\ Shape(NoRequest) /\ NoRequest.kind = "none"
  BY DEF NoRequest, Request, Kind, Step, Shape, Creates

LEMMA RequestTypes ==
    ASSUME TypeInv, NEW s \in Slot, NEW r \in Request, Shape(r), Becomes(s, r)
    PROVE  request' \in [Slot -> Request] /\ \A t \in Slot : Shape(request'[t])
  BY DEF Becomes, TypeInv, TypeOK

LEMMA EndsTypes ==
    ASSUME TypeInv, NEW s \in Slot, Ends(s)
    PROVE  request' \in [Slot -> Request] /\ \A t \in Slot : Shape(request'[t])
  BY NoRequestTypes, RequestTypes DEF Ends

LEMMA InitTypes == Init => TypeInv
  BY NoRequestTypes, MaxHashAssumption DEF Init, TypeInv, TypeOK, Hash

LEMMA RowTypes ==
    /\ \A a \in Arch, env \in Env, n \in Nat : EnvironmentRow(a, env, n) \in Environment
    /\ \A a \in Arch, env \in Env, n \in Nat, h, t \in Hash, l \in Path \cup {None} :
          VersionRow(a, env, n, h, t, l) \in Version
    /\ \A id \in Arch, n \in Name, u \in User : \E x \in Architecture :
          NewArchitecture(id, n, u) = {x} /\ x.id = id
  <1>1. ASSUME NEW id \in Arch, NEW n \in Name, NEW u \in User
        PROVE  \E x \in Architecture : NewArchitecture(id, n, u) = {x} /\ x.id = id
    <2> DEFINE x == [id |-> id, name |-> n, owner |-> u]
    <2>1. x \in Architecture /\ x.id = id /\ NewArchitecture(id, n, u) = {x}
      BY DEF Architecture, NewArchitecture
    <2> QED
      BY <2>1
  <1> QED
    BY <1>1 DEF EnvironmentRow, VersionRow, Environment, Version, Path

(* The tables, the bucket and the rest, apart from the requests.              *)
OtherTypes ==
    /\ roles \subseteq User \X Arch
    /\ architectures \subseteq Architecture
    /\ environments \subseteq Environment
    /\ versions \subseteq Version
    /\ DOMAIN objects \subseteq Path /\ \A x \in DOMAIN objects : objects[x] \in Hash
    /\ hashes \in Hash
    /\ used \subseteq Arch /\ abandoned \subseteq Arch /\ deleted \subseteq Arch

LEMMA SameOtherTypes == ASSUME OtherTypes, UNCHANGED others PROVE OtherTypes'
  BY DEF OtherTypes, others, tables, drawn, gone

LEMMA BeginCreateTypes ==
    ASSUME TypeInv, NEW s \in Slot, BeginCreate(s)
    PROVE  OtherTypes' /\ request' \in [Slot -> Request] /\ \A t \in Slot : Shape(request'[t])
  <1>1. PICK id \in Arch \ used, n \in Name, u \in User :
          /\ used' = used \cup {id}
          /\ Becomes(s, [NoRequest EXCEPT
                !.kind = "create", !.step = "owner", !.new = NewArchitecture(id, n, u),
                !.addEnvironments = {EnvironmentRow(id, env, 0) : env \in Env},
                !.addVersions = {VersionRow(id, env, 0, 0, 0, None) : env \in Env}])
    BY DEF BeginCreate
  <1> DEFINE es == {EnvironmentRow(id, env, 0) : env \in Env}
             vs == {VersionRow(id, env, 0, 0, 0, None) : env \in Env}
             new == NewArchitecture(id, n, u)
             r == [NoRequest EXCEPT !.kind = "create", !.step = "owner", !.new = new,
                                    !.addEnvironments = es, !.addVersions = vs]
  <1>2. PICK x \in Architecture : new = {x} /\ x.id = id
    BY RowTypes
  <1>3. es \subseteq Environment /\ vs \subseteq Version
    BY RowTypes, MaxHashAssumption DEF Hash
  <1>4. (\A e \in es : e.architecture = id) /\ (\A v \in vs : v.path[1] = id)
    BY DEF EnvironmentRow, VersionRow
  <1>5. Becomes(s, r)
    BY <1>1
  <1> HIDE DEF es, vs, new
  <1>6. r \in Request /\ r.kind = "create" /\ r.new = {x} /\ r.addEnvironments = es /\ r.addVersions = vs
    BY <1>2, <1>3, NoRequestTypes DEF Request, Kind, Step
  <1> HIDE DEF r
  <1>7. Shape(r)
    BY <1>2, <1>4, <1>6 DEF Shape, Creates
  <1> QED
    BY <1>1, <1>5, <1>6, <1>7, RequestTypes DEF BeginCreate, OtherTypes, tables, gone, TypeInv, TypeOK

LEMMA BeginCloneTypes ==
    ASSUME TypeInv, NEW s \in Slot, BeginClone(s)
    PROVE  OtherTypes' /\ request' \in [Slot -> Request] /\ \A t \in Slot : Shape(request'[t])
  <1>1. PICK a \in Arch, id \in Arch \ used, n \in Name, u \in User :
          /\ used' = used \cup {id}
          /\ Becomes(s, [NoRequest EXCEPT !.kind = "clone", !.step = "owner", !.arch = a,
                             !.new = NewArchitecture(id, n, u)])
    BY DEF BeginClone
  <1> DEFINE new == NewArchitecture(id, n, u)
             r == [NoRequest EXCEPT !.kind = "clone", !.step = "owner", !.arch = a, !.new = new]
  <1>2. PICK x \in Architecture : new = {x} /\ x.id = id
    BY RowTypes
  <1>3. Becomes(s, r)
    BY <1>1
  <1> HIDE DEF new
  <1>4. r \in Request /\ r.kind = "clone" /\ r.arch = a /\ r.new = {x}
        /\ r.addEnvironments = {} /\ r.addVersions = {}
    BY <1>2 DEF Request, Kind, Step, NoRequest
  <1> HIDE DEF r
  <1>5. Shape(r)
    BY <1>4 DEF Shape, Creates
  <1> QED
    BY <1>1, <1>3, <1>4, <1>5, RequestTypes DEF BeginClone, OtherTypes, tables, gone, TypeInv, TypeOK

LEMMA AddOwnerTypes ==
    ASSUME TypeInv, NEW s \in Slot, AddOwner(s)
    PROVE  OtherTypes' /\ request' \in [Slot -> Request] /\ \A t \in Slot : Shape(request'[t])
  <1> DEFINE step == IF request[s].kind = "create" THEN "commit" ELSE "environments"
             r == [request[s] EXCEPT !.step = step]
  <1>1. request[s] \in Request /\ Shape(request[s]) /\ Creates(request[s])
    BY DEF TypeInv, TypeOK, AddOwner, At, Creates
  <1>2. PICK x \in Architecture : request[s].new = {x}
    BY <1>1 DEF Shape
  <1>3. roles' \subseteq User \X Arch
    <2>1. <<x.owner, x.id>> \in User \X Arch
      BY DEF Architecture
    <2> QED
      BY <1>2, <2>1 DEF AddOwner, TypeInv, TypeOK
  <1>4. r \in Request /\ Shape(r)
    <2>1. step \in Step
      BY DEF Step
    <2> HIDE DEF step
    <2>2. r \in Request /\ r.kind = request[s].kind /\ r.new = request[s].new
          /\ r.arch = request[s].arch
          /\ r.addEnvironments = request[s].addEnvironments /\ r.addVersions = request[s].addVersions
      BY <1>1, <2>1 DEF Request
    <2> QED
      BY <1>1, <2>2 DEF Shape, Creates
  <1>5. Becomes(s, r)
    BY DEF AddOwner
  <1> HIDE DEF r
  <1> QED
    BY <1>3, <1>4, <1>5, RequestTypes DEF AddOwner, OtherTypes, tables, drawn, gone, TypeInv, TypeOK

(* A creation goes on: what it adds stays rows of the architecture it makes.  *)
LEMMA CreationTypes ==
    ASSUME TypeInv, NEW s \in Slot, Creates(request[s]), NEW r \in Request, Becomes(s, r),
           r.kind = request[s].kind, r.new = request[s].new, r.arch = request[s].arch,
           \A x \in request[s].new :
              /\ \A e \in r.addEnvironments \ request[s].addEnvironments : e.architecture = x.id
              /\ \A v \in r.addVersions \ request[s].addVersions : v.path[1] = x.id
    PROVE  request' \in [Slot -> Request] /\ \A t \in Slot : Shape(request'[t])
  <1>1. Shape(request[s])
    BY DEF TypeInv
  <1>2. Shape(r)
    BY <1>1 DEF Shape, Creates
  <1> QED
    BY <1>2, RequestTypes

LEMMA CloneReadsTypes ==
    ASSUME TypeInv, NEW s \in Slot,
           ReadEnvironments(s) \/ ListVersions(s) \/ NextEnvironment(s) \/ NoEnvironmentLeft(s)
    PROVE  OtherTypes' /\ request' \in [Slot -> Request] /\ \A t \in Slot : Shape(request'[t])
  <1>1. /\ request[s] \in Request /\ Shape(request[s]) /\ Creates(request[s])
        /\ request[s].kind = "clone" /\ request[s].arch \in Arch
    BY DEF TypeInv, TypeOK, ReadEnvironments, ListVersions, NextEnvironment, NoEnvironmentLeft,
           At, Creates, Shape
  <1>2. OtherTypes'
    BY SameOtherTypes DEF ReadEnvironments, ListVersions, NextEnvironment, NoEnvironmentLeft,
                          OtherTypes, TypeInv, TypeOK
  <1>3. CASE ReadEnvironments(s)
    <2> DEFINE r == [request[s] EXCEPT !.step = "environment",
                                       !.todo = EnvironmentsOf(request[s].arch)]
    <2>1. EnvironmentsOf(request[s].arch) \subseteq Environment
      BY DEF EnvironmentsOf, TypeInv, TypeOK
    <2>2. r \in Request
      BY <1>1, <2>1 DEF Request, Step
    <2> QED
      BY <1>1, <1>2, <1>3, <2>2, CreationTypes DEF ReadEnvironments, Request
  <1>4. CASE ListVersions(s)
    <2>1. PICK e \in request[s].todo :
          Becomes(s, [request[s] EXCEPT
             !.step = "versions", !.todo = @ \ {e},
             !.copy = VersionsOf(request[s].arch, e.id),
             !.addEnvironments = @ \cup
                 {EnvironmentRow(x.id, e.id, e.current) : x \in request[s].new}])
      BY <1>4 DEF ListVersions
    <2> DEFINE copy == VersionsOf(request[s].arch, e.id)
               es == {EnvironmentRow(x.id, e.id, e.current) : x \in request[s].new}
               r == [request[s] EXCEPT !.step = "versions", !.todo = @ \ {e}, !.copy = copy,
                                       !.addEnvironments = @ \cup es]
    <2>2. PICK y \in Architecture : request[s].new = {y}
      BY <1>1 DEF Shape
    <2>3. e.id \in Env /\ e.current \in Nat /\ y.id \in Arch
      BY <1>1 DEF Request, Environment, Architecture
    <2>4. es \subseteq Environment
      BY <2>2, <2>3, RowTypes
    <2>5. \A f \in es : f.architecture = y.id
      BY <2>2 DEF EnvironmentRow
    <2>6. copy \subseteq Version
      BY DEF VersionsOf, TypeInv, TypeOK
    <2>7. Becomes(s, r)
      BY <2>1
    <2> HIDE DEF copy, es
    <2>8. /\ r \in Request /\ r.kind = request[s].kind /\ r.new = request[s].new
          /\ r.arch = request[s].arch /\ r.addVersions = request[s].addVersions
          /\ r.addEnvironments = request[s].addEnvironments \cup es
      BY <1>1, <2>4, <2>6 DEF Request, Step
    <2> HIDE DEF r
    <2> QED
      BY <1>1, <1>2, <2>2, <2>5, <2>7, <2>8, CreationTypes
  <1>5. CASE NextEnvironment(s) \/ NoEnvironmentLeft(s)
    <2>1. PICK step \in {"environment", "commit"} : Becomes(s, [request[s] EXCEPT !.step = step])
      BY <1>5 DEF NextEnvironment, NoEnvironmentLeft
    <2> DEFINE r == [request[s] EXCEPT !.step = step]
    <2>2. /\ r \in Request /\ r.kind = request[s].kind /\ r.new = request[s].new
          /\ r.arch = request[s].arch /\ r.addVersions = request[s].addVersions
          /\ r.addEnvironments = request[s].addEnvironments
      BY <1>1 DEF Request, Step
    <2> QED
      BY <1>1, <1>2, <2>1, <2>2, CreationTypes
  <1> QED
    BY <1>3, <1>4, <1>5

(* The copy of a version: its row, under the name of the new architecture,    *)
(* and its state.                                                             *)
Copied(s, v) == [v EXCEPT !.path = CopyOf(s, v.path),
                          !.location = IF v.location # None THEN CopyOf(s, v.path) ELSE None]

LEMMA CopyTypes ==
    ASSUME TypeInv, NEW s \in Slot, Creates(request[s]), NEW v \in Version
    PROVE  /\ CopyOf(s, v.path) \in Path /\ CopyOf(s, v.path)[3] = v.path[3]
           /\ \A x \in request[s].new : CopyOf(s, v.path)[1] = x.id
           /\ Copied(s, v) \in Version
           /\ Copied(s, v).path = CopyOf(s, v.path)
           /\ Copied(s, v).location = IF v.location # None THEN CopyOf(s, v.path) ELSE None
  <1>1. PICK x \in Architecture : request[s].new = {x}
    BY DEF TypeInv, Shape
  <1>2. (CHOOSE y \in request[s].new : TRUE) = x
    BY <1>1
  <1>3. CopyOf(s, v.path) = <<x.id, v.path[2], v.path[3]>> /\ x.id \in Arch /\ v.path \in Path
    BY <1>2 DEF CopyOf, Version, Architecture
  <1>4. CopyOf(s, v.path) \in Path
    BY <1>3 DEF Path
  <1> DEFINE path == CopyOf(s, v.path)
             location == IF v.location # None THEN path ELSE None
  <1>5. location \in Path \cup {None} /\ Copied(s, v) = [v EXCEPT !.path = path, !.location = location]
    BY <1>4 DEF Copied
  <1> HIDE DEF path, location
  <1>6. Copied(s, v) \in Version /\ Copied(s, v).path = path /\ Copied(s, v).location = location
    BY <1>4, <1>5 DEF Version, path
  <1> QED
    BY <1>1, <1>3, <1>4, <1>6 DEF path, location

LEMMA CopyVersionTypes ==
    ASSUME TypeInv, NEW s \in Slot, CopyVersion(s)
    PROVE  OtherTypes' /\ request' \in [Slot -> Request] /\ \A t \in Slot : Shape(request'[t])
  <1>1. request[s] \in Request /\ Shape(request[s]) /\ Creates(request[s])
    BY DEF TypeInv, TypeOK, CopyVersion, At, Creates
  <1>2. PICK v \in request[s].copy :
          /\ Stored(v)
          /\ Becomes(s, [request[s] EXCEPT !.copy = @ \ {v},
                             !.addVersions = @ \cup {Copied(s, v)}])
          /\ objects' = [x \in DOMAIN objects \cup (IF v.location # None THEN {CopyOf(s, v.path)} ELSE {}) |->
                            IF v.location # None /\ x = CopyOf(s, v.path) THEN StateOf(v) ELSE objects[x]]
    BY DEF CopyVersion, Copied
  <1> DEFINE w == Copied(s, v)
             r == [request[s] EXCEPT !.copy = @ \ {v}, !.addVersions = @ \cup {w}]
  <1>3. v \in Version
    BY <1>1 DEF Request
  <1>4. w \in Version /\ \A x \in request[s].new : w.path[1] = x.id
    BY <1>1, <1>3, CopyTypes
  <1>5. OtherTypes'
    <2>1. StateOf(v) \in Hash
      BY <1>2, MaxHashAssumption DEF Stored, StateOf, TypeInv, TypeOK, Hash
    <2>2. DOMAIN objects' \subseteq Path /\ \A x \in DOMAIN objects' : objects'[x] \in Hash
      <3> DEFINE new == IF v.location # None THEN {CopyOf(s, v.path)} ELSE {}
                 f == [x \in DOMAIN objects \cup new |->
                         IF v.location # None /\ x = CopyOf(s, v.path) THEN StateOf(v) ELSE objects[x]]
      <3>1. new \subseteq Path
        BY <1>1, <1>3, CopyTypes
      <3>2. objects' = f
        BY <1>2
      <3>3. DOMAIN f = DOMAIN objects \cup new
        OBVIOUS
      <3>4. ASSUME NEW x \in DOMAIN objects \cup new PROVE f[x] \in Hash
        BY <2>1, <3>4 DEF TypeInv, TypeOK
      <3> HIDE DEF f, new
      <3> QED
        BY <3>1, <3>2, <3>3, <3>4 DEF TypeInv, TypeOK
    <2> QED
      BY <2>2 DEF CopyVersion, OtherTypes, tables, drawn, gone, TypeInv, TypeOK
  <1>6. Becomes(s, r)
    BY <1>2
  <1> HIDE DEF w
  <1>7. /\ r \in Request /\ r.kind = request[s].kind /\ r.new = request[s].new
        /\ r.arch = request[s].arch /\ r.addEnvironments = request[s].addEnvironments
        /\ r.addVersions = request[s].addVersions \cup {w}
    BY <1>1, <1>4 DEF Request
  <1> HIDE DEF r
  <1> QED
    BY <1>1, <1>4, <1>5, <1>6, <1>7, CreationTypes

LEMMA BeginOthersTypes ==
    ASSUME TypeInv, NEW s \in Slot, BeginRename(s) \/ BeginDelete(s) \/ LoadVersions(s)
    PROVE  OtherTypes' /\ request' \in [Slot -> Request] /\ \A t \in Slot : Shape(request'[t])
  <1>1. OtherTypes'
    BY SameOtherTypes DEF BeginRename, BeginDelete, LoadVersions, OtherTypes, TypeInv, TypeOK
  <1>2. CASE BeginRename(s)
    <2>1. PICK x \in architectures, n \in Name :
            Becomes(s, [NoRequest EXCEPT !.kind = "rename", !.step = "commit",
                             !.arch = x.id, !.new = {[x EXCEPT !.name = n]}])
      BY <1>2 DEF BeginRename
    <2> DEFINE y == [x EXCEPT !.name = n]
               r == [NoRequest EXCEPT !.kind = "rename", !.step = "commit", !.arch = x.id, !.new = {y}]
    <2>2. y \in Architecture /\ y.id = x.id /\ x.id \in Arch
      BY DEF TypeInv, TypeOK, Architecture
    <2>3. Becomes(s, r)
      BY <2>1
    <2> HIDE DEF y
    <2>4. r \in Request /\ r.kind = "rename" /\ r.arch = x.id /\ r.new = {y}
      BY <2>2 DEF NoRequest, Request, Kind, Step
    <2> HIDE DEF r
    <2>5. Shape(r)
      BY <2>2, <2>4 DEF Shape, Creates
    <2> QED
      BY <1>1, <2>3, <2>4, <2>5, RequestTypes
  <1>3. CASE BeginDelete(s)
    <2>1. PICK a \in Arch :
            Becomes(s, [NoRequest EXCEPT !.kind = "delete", !.step = "load", !.arch = a])
      BY <1>3 DEF BeginDelete
    <2> DEFINE r == [NoRequest EXCEPT !.kind = "delete", !.step = "load", !.arch = a]
    <2>2. r \in Request /\ Shape(r)
      BY DEF NoRequest, Request, Kind, Step, Shape, Creates
    <2> QED
      BY <1>1, <2>1, <2>2, RequestTypes
  <1>4. CASE LoadVersions(s)
    <2> DEFINE paths == {v.path : v \in {w \in versions : w.path[1] = request[s].arch}}
               r == [request[s] EXCEPT !.step = "commit", !.loaded = paths]
    <2>1. paths \subseteq Path
      BY DEF TypeInv, TypeOK, Version
    <2>2. request[s] \in Request /\ Shape(request[s]) /\ request[s].kind = "delete"
      BY <1>4 DEF TypeInv, TypeOK, LoadVersions, At
    <2>3. Becomes(s, r)
      BY <1>4 DEF LoadVersions
    <2> HIDE DEF paths
    <2>4. r \in Request /\ r.kind = "delete" /\ r.arch = request[s].arch
      BY <2>1, <2>2 DEF Request, Step
    <2>5. Shape(r)
      BY <2>2, <2>4 DEF Shape, Creates
    <2> QED
      BY <1>1, <2>3, <2>4, <2>5, RequestTypes
  <1> QED
    BY <1>2, <1>3, <1>4

(* What a run or a promotion writes; the number is that of a version plus one. *)
LEMMA WritesTypes ==
    ASSUME TypeInv, NEW s \in Slot, NEW a \in Arch, NEW env \in Env, NEW n \in Nat,
           NEW h \in Hash, NEW loaded \in SUBSET Path, Writes(s, a, env, n, h, loaded)
    PROVE  /\ OtherTypes' /\ request' \in [Slot -> Request] /\ \A t \in Slot : Shape(request'[t])
           /\ request'[s].kind = "edit" /\ request'[s].arch = a
           /\ request'[s].copy = {} /\ request'[s].new = {}
           /\ request'[s].addVersions = {VersionRow(a, env, n, hashes', h, <<a, env, n>>)}
           /\ DOMAIN objects' = DOMAIN objects \cup {<<a, env, n>>}
  <1> DEFINE path == <<a, env, n>>
             es == {EnvironmentRow(a, env, n)}
             vs == {VersionRow(a, env, n, hashes', h, path)}
             r == [NoRequest EXCEPT
                    !.kind = "edit", !.step = "commit", !.arch = a, !.loaded = loaded,
                    !.addEnvironments = es, !.addVersions = vs]
  <1>1. path \in Path /\ hashes' \in Hash
    BY MaxHashAssumption DEF Path, Writes, Hash, TypeInv, TypeOK
  <1>2. es \subseteq Environment /\ vs \subseteq Version
    BY <1>1, RowTypes
  <1>3. (\A e \in es : e.architecture = a) /\ (\A v \in vs : v.path[1] = a)
    BY DEF EnvironmentRow, VersionRow
  <1>4. Becomes(s, r) /\ objects' = [x \in DOMAIN objects \cup {path} |->
                                        IF x = path THEN hashes' ELSE objects[x]]
    BY DEF Writes
  <1>5. OtherTypes'
    <2>1. DOMAIN objects' \subseteq Path /\ \A x \in DOMAIN objects' : objects'[x] \in Hash
      <3> HIDE DEF path
      <3> QED
        BY <1>1, <1>4 DEF TypeInv, TypeOK
    <2> QED
      BY <1>1, <2>1 DEF Writes, OtherTypes, tables, gone, TypeInv, TypeOK
  <1>6. DOMAIN objects' = DOMAIN objects \cup {path}
    BY <1>4
  <1> HIDE DEF path, es, vs
  <1>7. /\ r \in Request /\ r.kind = "edit" /\ r.arch = a /\ r.copy = {} /\ r.new = {}
        /\ r.addEnvironments = es /\ r.addVersions = vs
    BY <1>2 DEF NoRequest, Request, Kind, Step
  <1> HIDE DEF r
  <1>8. Shape(r)
    BY <1>3, <1>7 DEF Shape, Creates
  <1>9. request'[s] = r
    BY <1>4 DEF Becomes, TypeInv, TypeOK
  <1> QED
    BY <1>4, <1>5, <1>6, <1>7, <1>8, <1>9, RequestTypes DEF vs, path

(* A run and a promotion are such a write.                                    *)
LEMMA EditsWrite ==
    ASSUME TypeInv, NEW s \in Slot, Run(s) \/ Promote(s)
    PROVE  \E a \in Arch, env \in Env, n \in Nat \ {0}, h \in Hash, loaded \in SUBSET Path :
              Allowed(s, a) /\ Writes(s, a, env, n, h, loaded)
  <1>1. \A a, env : VersionsOf(a, env) \subseteq Version
    BY DEF VersionsOf, TypeInv, TypeOK
  <1>2. \A v \in Version : v.path \in Path /\ v.path[3] \in Nat /\ v.tracks \in Hash /\ v.hash \in Hash
    BY DEF Version, Path
  <1>3. CASE Run(s)
    <2>1. PICK a \in Arch, env \in Env, overwrite \in BOOLEAN :
            /\ Allowed(s, a)
            /\ \E v \in IF overwrite THEN VersionsOf(a, env) ELSE CurrentOf(a, env),
                  last \in Latest(a, env) :
                  Writes(s, a, env, last.path[3] + 1, v.tracks,
                         {w.path : w \in {x \in VersionsOf(a, env) :
                                             overwrite /\ x.path[3] > v.path[3]}})
      BY <1>3 DEF Run
    <2>2. PICK v \in VersionsOf(a, env), last \in VersionsOf(a, env) :
                  Writes(s, a, env, last.path[3] + 1, v.tracks,
                         {w.path : w \in {x \in VersionsOf(a, env) :
                                             overwrite /\ x.path[3] > v.path[3]}})
      BY <2>1 DEF CurrentOf, Latest
    <2> DEFINE loaded == {w.path : w \in {x \in VersionsOf(a, env) :
                                             overwrite /\ x.path[3] > v.path[3]}}
    <2>3. loaded \in SUBSET Path
      BY <1>1, <1>2
    <2>4. last.path[3] + 1 \in Nat \ {0} /\ v.tracks \in Hash
      BY <1>1, <1>2
    <2> HIDE DEF loaded
    <2> QED
      BY <2>1, <2>2, <2>3, <2>4 DEF loaded
  <1>4. CASE Promote(s)
    <2>1. PICK a \in Arch : Allowed(s, a) /\
            \E v \in CurrentOf(a, PROD_ENV_ID), b \in CurrentOf(a, BASE_ENV_ID) :
               Writes(s, a, PROD_ENV_ID, v.path[3] + 1, b.hash, {})
      BY <1>4 DEF Promote
    <2>2. PICK v \in Version, b \in Version : Writes(s, a, PROD_ENV_ID, v.path[3] + 1, b.hash, {})
      BY <1>1, <2>1 DEF CurrentOf
    <2>3. PROD_ENV_ID \in Env /\ v.path[3] + 1 \in Nat \ {0} /\ b.hash \in Hash
      BY <1>2 DEF Env
    <2> QED
      BY <2>1, <2>2, <2>3
  <1> QED
    BY <1>3, <1>4

LEMMA CommitTypes ==
    ASSUME TypeInv, NEW s \in Slot,
           CommitNew(s) \/ CommitRename(s) \/ CommitDelete(s) \/ CommitEdit(s) \/ Fails(s)
    PROVE  OtherTypes' /\ request' \in [Slot -> Request] /\ \A t \in Slot : Shape(request'[t])
  <1>1. Ends(s)
    BY DEF CommitNew, CommitRename, CommitDelete, CommitEdit, Fails
  <1> SUFFICES OtherTypes'
    BY <1>1, EndsTypes
  <1>2. /\ request[s].new \subseteq Architecture /\ request[s].addVersions \subseteq Version
        /\ request[s].addEnvironments \subseteq Environment
    BY DEF TypeInv, TypeOK, Request
  <1>3. CASE CommitNew(s) \/ CommitRename(s)
    BY <1>2, <1>3 DEF CommitNew, CommitRename, OtherTypes, drawn, gone, TypeInv, TypeOK
  <1>4. CASE CommitEdit(s)
    BY <1>2, <1>4 DEF CommitEdit, OtherTypes, drawn, gone, TypeInv, TypeOK
  <1>5. CASE CommitDelete(s)
    <2>1. request[s].arch \in Arch
      BY <1>5 DEF CommitDelete, Deletes, At, TypeInv, Shape
    <2> QED
      BY <1>5, <2>1 DEF CommitDelete, OtherTypes, drawn, TypeInv, TypeOK
  <1>6. CASE Fails(s)
    <2>1. {x.id : x \in request[s].new} \subseteq Arch
      BY <1>2 DEF Architecture
    <2> QED
      BY <1>6, <2>1 DEF Fails, OtherTypes, tables, drawn, TypeInv, TypeOK
  <1> QED
    BY <1>3, <1>4, <1>5, <1>6

LEMMA MoveTypes ==
    ASSUME TypeInv, NEW s \in Slot, Move(s)
    PROVE  OtherTypes' /\ request' \in [Slot -> Request] /\ \A t \in Slot : Shape(request'[t])
  <1>1. PICK a \in Arch, env \in Env, v \in versions :
          environments' = {IF <<e.architecture, e.id>> = <<a, env>>
                              THEN [e EXCEPT !.current = v.path[3]] ELSE e : e \in environments}
    BY DEF Move, VersionsOf
  <1>2. v.path[3] \in Nat
    BY DEF TypeInv, TypeOK, Version, Path
  <1>3. \A e \in Environment : [e EXCEPT !.current = v.path[3]] \in Environment
    BY <1>2 DEF Environment
  <1>4. environments' \subseteq Environment
    BY <1>1, <1>3 DEF TypeInv, TypeOK
  <1> QED
    BY <1>4 DEF Move, OtherTypes, drawn, gone, TypeInv, TypeOK

LEMMA NextTypes == TypeInv /\ [Next]_vars => TypeInv'
  <1> SUFFICES ASSUME TypeInv, [Next]_vars PROVE TypeInv'
    OBVIOUS
  <1>1. CASE UNCHANGED vars
    BY <1>1 DEF vars, others, tables, drawn, gone, TypeInv, TypeOK
  <1>2. CASE Next
    <2>1. touched' \subseteq Slot
      BY <1>2 DEF Next, Touches
    <2>2. PICK s \in Slot : Acts(s)
      BY <1>2 DEF Next
    <2>3. ASSUME Run(s) \/ Promote(s)
          PROVE  OtherTypes' /\ request' \in [Slot -> Request] /\ \A t \in Slot : Shape(request'[t])
      BY <2>3, EditsWrite, WritesTypes
    <2>4. OtherTypes' /\ request' \in [Slot -> Request] /\ \A t \in Slot : Shape(request'[t])
      BY <2>2, <2>3, BeginCreateTypes, BeginCloneTypes, AddOwnerTypes, CloneReadsTypes,
         CopyVersionTypes, BeginOthersTypes, CommitTypes, MoveTypes DEF Acts
    <2> QED
      BY <2>1, <2>4 DEF TypeInv, TypeOK, OtherTypes
  <1> QED
    BY <1>1, <1>2

LEMMA TypesHold == Spec => []TypeInv
  BY InitTypes, NextTypes, PTL DEF Spec

(* Every variable keeps its type, whatever overlaps or fails (TypeOK).        *)
THEOREM TypeCorrect == Spec => []TypeOK
  BY TypesHold, PTL DEF TypeInv

-----------------------------------------------------------------------------
(* What a step does to the requests: only one slot changes, and its request   *)
(* goes on, ends, starts to make an architecture with an uuid nobody drew, or *)
(* starts something else for an architecture that has a row.                  *)
HasRow(a) == \E x \in architectures : x.id = a

GoesOn(s) ==
    /\ request'[s].kind = request[s].kind
    /\ request'[s].new = request[s].new
    /\ request'[s].arch = request[s].arch

StartsToMake(s) ==
    \E x \in Architecture :
        /\ x.id \notin used /\ used' = used \cup {x.id}
        /\ Creates(request'[s]) /\ request'[s].step = "owner" /\ request'[s].new = {x}
        /\ request'[s].arch = None \/ HasRow(request'[s].arch)

StartsOther(s) ==
    /\ ~Creates(request'[s]) /\ HasRow(request'[s].arch)
    /\ request'[s].kind = "rename" =>
          \A y \in request'[s].new : \E x \in architectures : x.id = y.id /\ x.owner = y.owner

LEMMA OtherSlots ==
    ASSUME TypeInv, NEW s \in Slot, Acts(s)
    PROVE  \A t \in Slot \ {s} : request'[t] = request[t]
  <1>1. ASSUME NEW r, Becomes(s, r) PROVE \A t \in Slot \ {s} : request'[t] = request[t]
    BY <1>1 DEF Becomes, TypeInv, TypeOK
  <1>2. ASSUME Run(s) \/ Promote(s) PROVE \E r : Becomes(s, r)
    <2>1. PICK a \in Arch, env \in Env, n \in Nat \ {0}, h \in Hash, loaded \in SUBSET Path :
              Writes(s, a, env, n, h, loaded)
      BY <1>2, EditsWrite
    <2> QED
      BY <2>1 DEF Writes
  <1>3. (\E r : Becomes(s, r)) \/ request' = request
    BY <1>2 DEF Acts, BeginCreate, BeginClone, AddOwner, ReadEnvironments, ListVersions,
       CopyVersion, NextEnvironment, NoEnvironmentLeft, BeginRename, BeginDelete,
       LoadVersions, Move, CommitNew, CommitRename, CommitDelete, CommitEdit, Fails, Ends
  <1> QED
    BY <1>1, <1>3

LEMMA GoingOn ==
    ASSUME TypeInv, NEW s \in Slot,
           \/ AddOwner(s) \/ ReadEnvironments(s) \/ ListVersions(s) \/ CopyVersion(s)
           \/ NextEnvironment(s) \/ NoEnvironmentLeft(s) \/ LoadVersions(s) \/ Move(s)
    PROVE  GoesOn(s)
  <1>1. request[s] \in Request
    BY DEF TypeInv, TypeOK
  <1>2. ASSUME NEW r, Becomes(s, r) PROVE request'[s] = r
    BY <1>2 DEF Becomes, TypeInv, TypeOK
  <1>3. CASE AddOwner(s)
    BY <1>1, <1>2, <1>3 DEF AddOwner, GoesOn, Request
  <1>4. CASE ReadEnvironments(s) \/ NextEnvironment(s) \/ NoEnvironmentLeft(s) \/ LoadVersions(s)
    BY <1>1, <1>2, <1>4 DEF ReadEnvironments, NextEnvironment, NoEnvironmentLeft, LoadVersions,
                            GoesOn, Request
  <1>5. CASE ListVersions(s)
    BY <1>1, <1>2, <1>5 DEF ListVersions, GoesOn, Request
  <1>6. CASE CopyVersion(s)
    BY <1>1, <1>2, <1>6 DEF CopyVersion, GoesOn, Request
  <1>7. CASE Move(s)
    BY <1>7 DEF Move, GoesOn
  <1> QED
    BY <1>3, <1>4, <1>5, <1>6, <1>7

LEMMA Ending ==
    ASSUME TypeInv, NEW s \in Slot,
           CommitNew(s) \/ CommitRename(s) \/ CommitDelete(s) \/ CommitEdit(s) \/ Fails(s)
    PROVE  request'[s] = NoRequest
  BY DEF CommitNew, CommitRename, CommitDelete, CommitEdit, Fails, Ends, Becomes, TypeInv, TypeOK

LEMMA StartingToMake ==
    ASSUME TypeInv, NEW s \in Slot, BeginCreate(s) \/ BeginClone(s)
    PROVE  /\ StartsToMake(s)
           /\ request'[s].copy = {}
           /\ \A v \in request'[s].addVersions : v.path[3] = 0 /\ v.location = None
  <1>1. ASSUME NEW r, Becomes(s, r) PROVE request'[s] = r
    BY <1>1 DEF Becomes, TypeInv, TypeOK
  <1>2. CASE BeginCreate(s)
    <2>1. PICK id \in Arch \ used, n \in Name, u \in User :
          /\ used' = used \cup {id}
          /\ Becomes(s, [NoRequest EXCEPT
                !.kind = "create", !.step = "owner", !.new = NewArchitecture(id, n, u),
                !.addEnvironments = {EnvironmentRow(id, env, 0) : env \in Env},
                !.addVersions = {VersionRow(id, env, 0, 0, 0, None) : env \in Env}])
      BY <1>2 DEF BeginCreate
    <2>2. PICK x \in Architecture : NewArchitecture(id, n, u) = {x} /\ x.id = id
      BY RowTypes
    <2>3. /\ request'[s].kind = "create" /\ request'[s].step = "owner" /\ request'[s].new = {x}
          /\ request'[s].arch = None /\ request'[s].copy = {}
          /\ request'[s].addVersions = {VersionRow(id, env, 0, 0, 0, None) : env \in Env}
      BY <1>1, <2>1, <2>2 DEF NoRequest
    <2> QED
      BY <2>1, <2>2, <2>3 DEF StartsToMake, Creates, VersionRow
  <1>3. CASE BeginClone(s)
    <2>1. PICK a \in Arch, id \in Arch \ used, n \in Name, u \in User :
          /\ Allowed(s, a)
          /\ used' = used \cup {id}
          /\ Becomes(s, [NoRequest EXCEPT !.kind = "clone", !.step = "owner", !.arch = a,
                             !.new = NewArchitecture(id, n, u)])
      BY <1>3 DEF BeginClone
    <2>2. PICK x \in Architecture : NewArchitecture(id, n, u) = {x} /\ x.id = id
      BY RowTypes
    <2>3. /\ request'[s].kind = "clone" /\ request'[s].step = "owner" /\ request'[s].new = {x}
          /\ request'[s].arch = a /\ request'[s].copy = {} /\ request'[s].addVersions = {}
      BY <1>1, <2>1, <2>2 DEF NoRequest
    <2> QED
      BY <2>1, <2>2, <2>3 DEF StartsToMake, Creates, Allowed, HasRow
  <1> QED
    BY <1>2, <1>3

LEMMA StartingOther ==
    ASSUME TypeInv, NEW s \in Slot, BeginRename(s) \/ BeginDelete(s) \/ Run(s) \/ Promote(s)
    PROVE  StartsOther(s)
  <1>1. ASSUME NEW r, Becomes(s, r) PROVE request'[s] = r
    BY <1>1 DEF Becomes, TypeInv, TypeOK
  <1>2. CASE BeginRename(s)
    <2>1. PICK x \in architectures, n \in Name :
            /\ Allowed(s, x.id)
            /\ Becomes(s, [NoRequest EXCEPT !.kind = "rename", !.step = "commit",
                             !.arch = x.id, !.new = {[x EXCEPT !.name = n]}])
      BY <1>2 DEF BeginRename
    <2>2. /\ request'[s].kind = "rename" /\ request'[s].arch = x.id
          /\ request'[s].new = {[x EXCEPT !.name = n]}
      BY <1>1, <2>1 DEF NoRequest
    <2>3. [x EXCEPT !.name = n].id = x.id /\ [x EXCEPT !.name = n].owner = x.owner
      BY DEF TypeInv, TypeOK, Architecture
    <2> QED
      BY <2>2, <2>3 DEF StartsOther, Creates, HasRow
  <1>3. CASE BeginDelete(s)
    <2>1. PICK a \in Arch :
            /\ Allowed(s, a)
            /\ Becomes(s, [NoRequest EXCEPT !.kind = "delete", !.step = "load", !.arch = a])
      BY <1>3 DEF BeginDelete
    <2>2. request'[s].kind = "delete" /\ request'[s].arch = a
      BY <1>1, <2>1 DEF NoRequest
    <2> QED
      BY <2>1, <2>2 DEF StartsOther, Creates, HasRow, Allowed
  <1>4. CASE Run(s) \/ Promote(s)
    <2>1. PICK a \in Arch, env \in Env, n \in Nat \ {0}, h \in Hash, loaded \in SUBSET Path :
              Allowed(s, a) /\ Writes(s, a, env, n, h, loaded)
      BY <1>4, EditsWrite
    <2>2. request'[s].kind = "edit" /\ request'[s].arch = a
      BY <2>1, WritesTypes
    <2> QED
      BY <2>1, <2>2 DEF StartsOther, Creates, HasRow, Allowed
  <1> QED
    BY <1>2, <1>3, <1>4

-----------------------------------------------------------------------------
(* The state of each version.  What a clone copies and what a request adds    *)
(* are kept as the committed versions are, and no object is ever removed.     *)
Kept(v) ==
    IF v.path[3] = 0 THEN v.location = None
    ELSE v.location = v.path /\ v.path \in DOMAIN objects

KeptInv ==
    /\ \A v \in versions : Kept(v)
    /\ \A s \in Slot : \A v \in request[s].copy \cup request[s].addVersions : Kept(v)

LEMMA InitKept == Init => KeptInv
  BY DEF Init, KeptInv, NoRequest

(* What the request of the acting slot holds after its step.                  *)
LEMMA HeldKept ==
    ASSUME TypeInv, KeptInv, NEW s \in Slot, Acts(s), DOMAIN objects \subseteq DOMAIN objects'
    PROVE  \A v \in request'[s].copy \cup request'[s].addVersions : Kept(v)'
  <1>1. request[s] \in Request
    BY DEF TypeInv, TypeOK
  <1>2. ASSUME NEW r, Becomes(s, r) PROVE request'[s] = r
    BY <1>2 DEF Becomes, TypeInv, TypeOK
  <1>3. \A v \in versions \cup request[s].copy \cup request[s].addVersions : Kept(v)'
    BY DEF KeptInv, Kept
  <1>4. CASE BeginCreate(s) \/ BeginClone(s)
    BY <1>4, StartingToMake DEF Kept
  <1>5. CASE AddOwner(s) \/ ReadEnvironments(s) \/ NextEnvironment(s) \/ NoEnvironmentLeft(s)
             \/ LoadVersions(s) \/ Move(s)
    <2>1. request'[s].copy = request[s].copy /\ request'[s].addVersions = request[s].addVersions
      BY <1>1, <1>2, <1>5 DEF AddOwner, ReadEnvironments, NextEnvironment, NoEnvironmentLeft,
                              LoadVersions, Move, Request
    <2> QED
      BY <1>3, <2>1
  <1>6. CASE ListVersions(s)
    <2>1. PICK e \in request[s].todo :
            /\ request'[s].copy = VersionsOf(request[s].arch, e.id)
            /\ request'[s].addVersions = request[s].addVersions
      BY <1>1, <1>2, <1>6 DEF ListVersions, Request
    <2> QED
      BY <1>3, <2>1 DEF VersionsOf
  <1>7. CASE CopyVersion(s)
    <2>1. Creates(request[s])
      BY <1>7 DEF CopyVersion, At, Creates
    <2>2. PICK v \in request[s].copy :
            /\ Becomes(s, [request[s] EXCEPT !.copy = @ \ {v},
                               !.addVersions = @ \cup {Copied(s, v)}])
            /\ DOMAIN objects' = DOMAIN objects \cup
                                 (IF v.location # None THEN {CopyOf(s, v.path)} ELSE {})
      BY <1>7 DEF CopyVersion, Copied
    <2>3. v \in Version
      BY <1>1 DEF Request
    <2>4. /\ request'[s].copy \subseteq request[s].copy
          /\ request'[s].addVersions = request[s].addVersions \cup {Copied(s, v)}
      <3> DEFINE w == Copied(s, v)
      <3>1. Becomes(s, [request[s] EXCEPT !.copy = @ \ {v}, !.addVersions = @ \cup {w}])
        BY <2>2
      <3> HIDE DEF w
      <3>2. /\ request'[s].copy = request[s].copy \ {v}
            /\ request'[s].addVersions = request[s].addVersions \cup {w}
        BY <1>1, <1>2, <3>1 DEF Request
      <3> QED
        BY <3>2 DEF w
    <2>5. /\ Copied(s, v).path = CopyOf(s, v.path) /\ CopyOf(s, v.path)[3] = v.path[3]
          /\ Copied(s, v).location = IF v.location # None THEN CopyOf(s, v.path) ELSE None
      BY <2>1, <2>3, CopyTypes
    <2>6. Kept(v) /\ v.path # None
      <3>1. v.path \in Path
        BY <2>3 DEF Version
      <3>2. Kept(v)
        BY DEF KeptInv
      <3> QED
        BY <3>1, <3>2, NoneAssumption
    <2>7. PICK w : w = Copied(s, v)
      OBVIOUS
    <2>8. PICK path : path = CopyOf(s, v.path)
      OBVIOUS
    <2>9. Kept(w)'
      BY <2>2, <2>5, <2>6, <2>7, <2>8 DEF Kept
    <2>10. \A x \in request'[s].copy \cup request'[s].addVersions :
              x \in versions \cup request[s].copy \cup request[s].addVersions \cup {w}
      BY <2>4, <2>7
    <2> QED
      BY <1>3, <2>9, <2>10
  <1>8. CASE BeginRename(s) \/ BeginDelete(s)
    <2>1. request'[s].copy = {} /\ request'[s].addVersions = {}
      BY <1>2, <1>8 DEF BeginRename, BeginDelete, NoRequest
    <2> QED
      BY <2>1
  <1>9. CASE Run(s) \/ Promote(s)
    <2>1. PICK a \in Arch, env \in Env, n \in Nat \ {0}, h \in Hash, loaded \in SUBSET Path :
              Writes(s, a, env, n, h, loaded)
      BY <1>9, EditsWrite
    <2>2. /\ request'[s].copy = {}
          /\ request'[s].addVersions = {VersionRow(a, env, n, hashes', h, <<a, env, n>>)}
          /\ DOMAIN objects' = DOMAIN objects \cup {<<a, env, n>>}
      BY <2>1, WritesTypes
    <2>3. PICK w : w = VersionRow(a, env, n, hashes', h, <<a, env, n>>)
      OBVIOUS
    <2>4. Kept(w)'
      BY <2>2, <2>3 DEF Kept, VersionRow
    <2> QED
      BY <2>2, <2>3, <2>4
  <1>10. CASE CommitNew(s) \/ CommitRename(s) \/ CommitDelete(s) \/ CommitEdit(s) \/ Fails(s)
    BY <1>10, Ending DEF NoRequest
  <1> QED
    BY <1>4, <1>5, <1>6, <1>7, <1>8, <1>9, <1>10 DEF Acts

LEMMA KeptNext == TypeInv /\ KeptInv /\ [Next]_vars => KeptInv'
  <1> SUFFICES ASSUME TypeInv, KeptInv, [Next]_vars PROVE KeptInv'
    OBVIOUS
  <1>1. CASE UNCHANGED vars
    BY <1>1 DEF vars, others, tables, KeptInv, Kept
  <1>2. CASE Next
    <2>1. PICK s \in Slot : Acts(s)
      BY <1>2 DEF Next
    <2>2. DOMAIN objects \subseteq DOMAIN objects'
      <3>1. CASE Run(s) \/ Promote(s)
        <4>1. PICK a \in Arch, env \in Env, n \in Nat \ {0}, h \in Hash, loaded \in SUBSET Path :
                 Writes(s, a, env, n, h, loaded)
          BY <3>1, EditsWrite
        <4> QED
          BY <4>1, WritesTypes
      <3>2. CASE ~(Run(s) \/ Promote(s))
        BY <2>1, <3>2 DEF Acts, BeginCreate, BeginClone, AddOwner, ReadEnvironments, ListVersions,
           CopyVersion, NextEnvironment, NoEnvironmentLeft, BeginRename, BeginDelete,
           LoadVersions, Move, CommitNew, CommitRename, CommitDelete, CommitEdit, Fails, others
      <3> QED
        BY <3>1, <3>2
    <2>3. versions' \subseteq versions \cup request[s].addVersions
      <3>1. CASE Run(s) \/ Promote(s)
        <4>1. PICK a \in Arch, env \in Env, n \in Nat \ {0}, h \in Hash, loaded \in SUBSET Path :
                 Writes(s, a, env, n, h, loaded)
          BY <3>1, EditsWrite
        <4> QED
          BY <4>1 DEF Writes, tables
      <3>2. CASE ~(Run(s) \/ Promote(s))
        BY <2>1, <3>2 DEF Acts, BeginCreate, BeginClone, AddOwner, ReadEnvironments, ListVersions,
           CopyVersion, NextEnvironment, NoEnvironmentLeft, BeginRename, BeginDelete, LoadVersions,
           Move, CommitNew, CommitRename, CommitDelete, CommitEdit, Fails, others, tables
      <3> QED
        BY <3>1, <3>2
    <2>4. \A v \in versions' : Kept(v)'
      BY <2>2, <2>3 DEF KeptInv, Kept
    <2>5. ASSUME NEW t \in Slot PROVE \A v \in request'[t].copy \cup request'[t].addVersions : Kept(v)'
      <3>1. CASE t = s
        BY <2>1, <2>2, <3>1, HeldKept
      <3>2. CASE t # s
        BY <2>1, <2>2, <3>2, OtherSlots DEF KeptInv, Kept
      <3> QED
        BY <3>1, <3>2
    <2> QED
      BY <2>4, <2>5 DEF KeptInv
  <1> QED
    BY <1>1, <1>2

(* Every version keeps its own state (StatesKept).                            *)
THEOREM VersionsKeepStates == Spec => []StatesKept
  <1>1. KeptInv => StatesKept
    BY DEF KeptInv, Kept, StatesKept
  <1> QED
    BY <1>1, InitKept, KeptNext, TypesHold, PTL DEF Spec

-----------------------------------------------------------------------------
(* Nothing of a deleted architecture comes back.  An uuid is drawn once, so   *)
(* an architecture that is being made has no row, nobody else makes it and no *)
(* request is for it: a delete cannot come before the creation commits.  What *)
(* commits later than a delete is refused by the foreign keys.                *)
Live == used \ deleted

RowsLive ==
    /\ deleted \subseteq used
    /\ \A x \in architectures : x.id \in Live
    /\ \A e \in environments : e.architecture \in Live
    /\ \A v \in versions : v.path[1] \in Live
    /\ \A s \in Slot : request[s].arch \in used \cup {None}

Fresh(s) ==
    Creates(request[s]) => \A x \in request[s].new :
        /\ x.id \in Live
        /\ \A y \in architectures : y.id # x.id
        /\ \A t \in Slot : request[t].arch # x.id
        /\ \A t \in Slot \ {s} : Creates(request[t]) => \A y \in request[t].new : y.id # x.id

LiveInv == RowsLive /\ \A s \in Slot : Fresh(s)

LEMMA InitLive == Init => LiveInv
  BY DEF Init, LiveInv, RowsLive, Live, Fresh, NoRequest, Creates

(* The request goes on and the rows keep their owners.                        *)
LEMMA LiveGoesOn ==
    ASSUME TypeInv, LiveInv, NEW s \in Slot, Acts(s), GoesOn(s),
           architectures' = architectures, versions' = versions, used' = used, deleted' = deleted,
           \A e \in environments' : \E f \in environments : f.architecture = e.architecture
    PROVE  LiveInv'
  <1>1. \A t \in Slot : /\ request'[t].arch = request[t].arch
                        /\ request'[t].new = request[t].new
                        /\ Creates(request'[t]) <=> Creates(request[t])
    BY OtherSlots DEF GoesOn, Creates
  <1>2. RowsLive'
    BY <1>1 DEF LiveInv, RowsLive, Live
  <1>3. \A t \in Slot : Fresh(t)'
    BY <1>1 DEF LiveInv, Fresh, Live
  <1> QED
    BY <1>2, <1>3 DEF LiveInv

(* A request begins.                                                          *)
LEMMA LiveStarts ==
    ASSUME TypeInv, LiveInv, NEW s \in Slot, Acts(s), UNCHANGED <<tables, deleted>>,
           StartsToMake(s) \/ (StartsOther(s) /\ used' = used)
    PROVE  LiveInv'
  <1>1. \A t \in Slot \ {s} : request'[t] = request[t]
    BY OtherSlots
  <1>2. \A a : HasRow(a) => a \in Live
    BY DEF HasRow, LiveInv, RowsLive
  <1>3. used \subseteq used' /\ Live \subseteq Live'
    BY DEF StartsToMake, Live
  <1>4. request'[s].arch \in Live \cup {None}
    BY <1>2 DEF StartsToMake, StartsOther
  <1>5. RowsLive'
    <2>1. \A t \in Slot : request'[t].arch \in used' \cup {None}
      BY <1>1, <1>3, <1>4 DEF LiveInv, RowsLive, Live
    <2> QED
      BY <1>3, <2>1 DEF LiveInv, RowsLive, tables
  <1>6. ASSUME NEW t \in Slot, Creates(request'[t]), NEW x \in request'[t].new
        PROVE  /\ x.id \in Live'
               /\ \A y \in architectures' : y.id # x.id
               /\ \A r \in Slot : request'[r].arch # x.id
               /\ \A r \in Slot \ {t} : Creates(request'[r]) => \A y \in request'[r].new : y.id # x.id
    <2>1. CASE t # s
      <3>1. /\ Creates(request[t]) /\ x \in request[t].new
        BY <1>1, <1>6, <2>1
      <3>2. /\ x.id \in Live /\ \A y \in architectures : y.id # x.id
            /\ \A r \in Slot : request[r].arch # x.id
            /\ \A r \in Slot \ {t} : Creates(request[r]) => \A y \in request[r].new : y.id # x.id
        BY <3>1 DEF LiveInv, Fresh
      <3>3. ~HasRow(x.id) /\ x.id # None
        <4>1. x.id \in Arch
          BY <1>6, <3>1 DEF TypeInv, TypeOK, Request, Architecture
        <4> QED
          BY <3>2, <4>1, NoneAssumption DEF HasRow
      <3>4. request'[s].arch # x.id
        BY <3>3 DEF StartsToMake, StartsOther
      <3>5. Creates(request'[s]) => \A y \in request'[s].new : y.id # x.id
        BY <3>2 DEF StartsToMake, StartsOther, Live
      <3> QED
        BY <1>1, <1>3, <3>2, <3>4, <3>5 DEF tables
    <2>2. CASE t = s
      <3>1. StartsToMake(s)
        BY <1>6, <2>2 DEF StartsOther
      <3>2. x.id \notin used /\ used' = used \cup {x.id} /\ x \in Architecture
        BY <1>6, <2>2, <3>1 DEF StartsToMake
      <3>3. x.id # None
        BY <3>2, NoneAssumption DEF Architecture
      <3>4. x.id \in Live'
        BY <3>2 DEF LiveInv, RowsLive, Live
      <3>5. \A y \in architectures' : y.id # x.id
        BY <3>2 DEF LiveInv, RowsLive, Live, tables
      <3>6. \A r \in Slot : request'[r].arch # x.id
        BY <1>1, <1>4, <3>2, <3>3 DEF LiveInv, RowsLive, Live
      <3>7. \A r \in Slot \ {t} : Creates(request'[r]) => \A y \in request'[r].new : y.id # x.id
        BY <1>1, <2>2, <3>2 DEF LiveInv, Fresh, Live
      <3> QED
        BY <3>4, <3>5, <3>6, <3>7
    <2> QED
      BY <2>1, <2>2
  <1> QED
    BY <1>5, <1>6 DEF LiveInv, Fresh

(* A request ends: the rows that are left or added are of live architectures, *)
(* and the only new one is what this request made.                            *)
LEMMA LiveEnds ==
    ASSUME TypeInv, LiveInv, NEW s \in Slot, Acts(s), request'[s] = NoRequest,
           used' = used, deleted \subseteq deleted', deleted' \subseteq used,
           \A a \in deleted' \ deleted : a = request[s].arch,
           \A x \in architectures' :
              /\ x.id \in Live'
              /\ HasRow(x.id) \/ (Creates(request[s]) /\ x \in request[s].new),
           \A e \in environments' : e.architecture \in Live',
           \A v \in versions' : v.path[1] \in Live'
    PROVE  LiveInv'
  <1>1. \A t \in Slot \ {s} : request'[t] = request[t]
    BY OtherSlots
  <1>2. /\ request'[s].arch = None /\ ~Creates(request'[s])
    BY DEF NoRequest, Creates
  <1>3. RowsLive'
    BY <1>1, <1>2 DEF LiveInv, RowsLive
  <1>4. ASSUME NEW t \in Slot, Creates(request'[t]), NEW x \in request'[t].new
        PROVE  /\ x.id \in Live'
               /\ \A y \in architectures' : y.id # x.id
               /\ \A r \in Slot : request'[r].arch # x.id
               /\ \A r \in Slot \ {t} : Creates(request'[r]) => \A y \in request'[r].new : y.id # x.id
    <2>1. t # s
      BY <1>2, <1>4
    <2>2. Creates(request[t]) /\ x \in request[t].new
      BY <1>1, <1>4, <2>1
    <2>3. /\ x.id \in Live /\ \A y \in architectures : y.id # x.id
          /\ \A r \in Slot : request[r].arch # x.id
          /\ \A r \in Slot \ {t} : Creates(request[r]) => \A y \in request[r].new : y.id # x.id
      BY <2>2 DEF LiveInv, Fresh
    <2>4. x.id # None
      <3>1. x.id \in Arch
        BY <2>2 DEF TypeInv, TypeOK, Request, Architecture
      <3> QED
        BY <3>1, NoneAssumption
    <2>5. x.id \in Live'
      BY <2>3 DEF Live
    <2>6. \A y \in architectures' : y.id # x.id
      BY <2>1, <2>3 DEF HasRow
    <2>7. \A r \in Slot : request'[r].arch # x.id
      BY <1>1, <1>2, <2>3, <2>4
    <2>8. \A r \in Slot \ {t} : Creates(request'[r]) => \A y \in request'[r].new : y.id # x.id
      BY <1>1, <1>2, <2>3
    <2> QED
      BY <2>5, <2>6, <2>7, <2>8
  <1> QED
    BY <1>3, <1>4 DEF LiveInv, Fresh

LEMMA LiveCommits ==
    ASSUME TypeInv, LiveInv, NEW s \in Slot, Acts(s),
           CommitNew(s) \/ CommitRename(s) \/ CommitDelete(s) \/ CommitEdit(s) \/ Fails(s)
    PROVE  LiveInv'
  <1>1. request'[s] = NoRequest
    BY Ending
  <1>2. Shape(request[s]) /\ Fresh(s) /\ RowsLive
    BY DEF TypeInv, LiveInv
  <1>3. CASE CommitNew(s)
    <2>1. Creates(request[s])
      BY <1>3 DEF CommitNew, At, Creates
    <2>2. Live' = Live /\ used' = used /\ deleted' = deleted
      BY <1>3 DEF CommitNew, Live, drawn, gone
    <2>3. PICK x \in Architecture :
            /\ request[s].new = {x} /\ x.id \in Live
            /\ \A e \in request[s].addEnvironments : e.architecture = x.id
            /\ \A v \in request[s].addVersions : v.path[1] = x.id
      BY <1>2, <2>1 DEF Shape, Fresh
    <2>4. /\ architectures' = architectures \cup {x}
          /\ environments' = environments \cup request[s].addEnvironments
          /\ versions' = versions \cup request[s].addVersions
      BY <1>3, <2>3 DEF CommitNew
    <2>5. \A y \in architectures' : y.id \in Live /\ (HasRow(y.id) \/ y \in request[s].new)
      BY <1>2, <2>3, <2>4 DEF RowsLive, HasRow
    <2>6. (\A e \in environments' : e.architecture \in Live) /\ (\A v \in versions' : v.path[1] \in Live)
      BY <1>2, <2>3, <2>4 DEF RowsLive
    <2> QED
      BY <1>1, <1>2, <2>1, <2>2, <2>5, <2>6, LiveEnds DEF RowsLive
  <1>4. CASE CommitRename(s)
    <2>1. Live' = Live /\ used' = used /\ deleted' = deleted
          /\ environments' = environments /\ versions' = versions
      BY <1>4 DEF CommitRename, Live, drawn, gone
    <2>2. PICK x \in Architecture : request[s].new = {x} /\ x.id = request[s].arch
      BY <1>2, <1>4 DEF CommitRename, Renames, At, Shape
    <2>3. HasRow(x.id) /\ architectures' \subseteq architectures \cup {x}
      BY <1>4, <2>2 DEF CommitRename, Renames, HasRow
    <2>4. \A y \in architectures' : y.id \in Live /\ HasRow(y.id)
      BY <1>2, <2>3 DEF RowsLive, HasRow
    <2> QED
      BY <1>1, <1>2, <2>1, <2>4, LiveEnds DEF RowsLive
  <1>5. CASE CommitDelete(s)
    <2>1. request[s].arch \in used
      <3>1. request[s].arch \in Arch
        BY <1>2, <1>5 DEF CommitDelete, Deletes, At, Shape
      <3> QED
        BY <1>2, <3>1, NoneAssumption DEF RowsLive
    <2>2. used' = used /\ deleted' = deleted \cup {request[s].arch} /\ Live' = Live \ {request[s].arch}
      BY <1>5 DEF CommitDelete, Live, drawn
    <2>3. \A x \in architectures' : x \in architectures /\ x.id # request[s].arch
      BY <1>5 DEF CommitDelete
    <2>4. \A e \in environments' : e \in environments /\ e.architecture # request[s].arch
      BY <1>5 DEF CommitDelete, EnvironmentsOf
    <2>5. \A v \in versions' : v \in versions /\ v.path[1] # request[s].arch
      BY <1>5 DEF CommitDelete
    <2>6. \A x \in architectures' : x.id \in Live' /\ HasRow(x.id)
      BY <1>2, <2>2, <2>3 DEF RowsLive, HasRow
    <2>7. (\A e \in environments' : e.architecture \in Live') /\ (\A v \in versions' : v.path[1] \in Live')
      BY <1>2, <2>2, <2>4, <2>5 DEF RowsLive
    <2> QED
      BY <1>1, <1>2, <2>1, <2>2, <2>6, <2>7, LiveEnds DEF RowsLive
  <1>6. CASE CommitEdit(s)
    <2>1. Live' = Live /\ used' = used /\ deleted' = deleted /\ architectures' = architectures
      BY <1>6 DEF CommitEdit, Live, drawn, gone
    <2>2. request[s].arch \in Live
      BY <1>2, <1>6 DEF CommitEdit, Adds, RowsLive
    <2>3. /\ \A e \in request[s].addEnvironments : e.architecture = request[s].arch
          /\ \A v \in request[s].addVersions : v.path[1] = request[s].arch
      BY <1>2, <1>6 DEF CommitEdit, Adds, At, Shape
    <2>4. /\ environments' \subseteq environments \cup request[s].addEnvironments
          /\ versions' \subseteq versions \cup request[s].addVersions
      BY <1>6 DEF CommitEdit
    <2>5. (\A e \in environments' : e.architecture \in Live) /\ (\A v \in versions' : v.path[1] \in Live)
      BY <1>2, <2>2, <2>3, <2>4 DEF RowsLive
    <2>6. \A x \in architectures' : x.id \in Live /\ HasRow(x.id)
      BY <1>2, <2>1 DEF RowsLive, HasRow
    <2> QED
      BY <1>1, <1>2, <2>1, <2>5, <2>6, LiveEnds DEF RowsLive
  <1>7. CASE Fails(s)
    <2>1. /\ Live' = Live /\ used' = used /\ deleted' = deleted
          /\ architectures' = architectures /\ environments' = environments /\ versions' = versions
      BY <1>7 DEF Fails, Live, tables, drawn
    <2>2. \A x \in architectures' : x.id \in Live /\ HasRow(x.id)
      BY <1>2, <2>1 DEF RowsLive, HasRow
    <2> QED
      BY <1>1, <1>2, <2>1, <2>2, LiveEnds DEF RowsLive
  <1> QED
    BY <1>3, <1>4, <1>5, <1>6, <1>7

LEMMA LiveNext == TypeInv /\ LiveInv /\ [Next]_vars => LiveInv'
  <1> SUFFICES ASSUME TypeInv, LiveInv, [Next]_vars PROVE LiveInv'
    OBVIOUS
  <1>1. CASE UNCHANGED vars
    BY <1>1 DEF vars, others, tables, drawn, gone, LiveInv, RowsLive, Live, Fresh
  <1>2. CASE Next
    <2>1. PICK s \in Slot : Acts(s)
      BY <1>2 DEF Next
    <2>2. CASE BeginCreate(s) \/ BeginClone(s)
      <3>1. UNCHANGED <<tables, deleted>>
        BY <2>2 DEF BeginCreate, BeginClone, gone
      <3> QED
        BY <2>1, <2>2, <3>1, StartingToMake, LiveStarts
    <2>3. CASE BeginRename(s) \/ BeginDelete(s) \/ Run(s) \/ Promote(s)
      <3>1. CASE BeginRename(s) \/ BeginDelete(s)
        <4>1. UNCHANGED <<tables, deleted>> /\ used' = used
          BY <3>1 DEF BeginRename, BeginDelete, others, gone, drawn
        <4> QED
          BY <2>1, <2>3, <4>1, StartingOther, LiveStarts
      <3>2. CASE Run(s) \/ Promote(s)
        <4>1. PICK a \in Arch, env \in Env, n \in Nat \ {0}, h \in Hash, loaded \in SUBSET Path :
                 Writes(s, a, env, n, h, loaded)
          BY <3>2, EditsWrite
        <4>2. UNCHANGED <<tables, deleted>> /\ used' = used
          BY <4>1 DEF Writes, gone
        <4> QED
          BY <2>1, <2>3, <4>2, StartingOther, LiveStarts
      <3> QED
        BY <2>3, <3>1, <3>2
    <2>4. CASE \/ AddOwner(s) \/ ReadEnvironments(s) \/ ListVersions(s) \/ CopyVersion(s)
               \/ NextEnvironment(s) \/ NoEnvironmentLeft(s) \/ LoadVersions(s) \/ Move(s)
      <3>1. /\ architectures' = architectures /\ versions' = versions
            /\ used' = used /\ deleted' = deleted
        BY <2>4 DEF AddOwner, ReadEnvironments, ListVersions, CopyVersion, NextEnvironment,
                    NoEnvironmentLeft, LoadVersions, Move, others, tables, drawn, gone
      <3>2. \A e \in environments' : \E f \in environments : f.architecture = e.architecture
        <4>1. CASE Move(s)
          <5>1. PICK a \in Arch, env \in Env, v \in versions :
                  environments' = {IF <<e.architecture, e.id>> = <<a, env>>
                                      THEN [e EXCEPT !.current = v.path[3]] ELSE e : e \in environments}
            BY <4>1 DEF Move, VersionsOf
          <5>2. \A e \in environments : [e EXCEPT !.current = v.path[3]].architecture = e.architecture
            BY DEF TypeInv, TypeOK, Environment
          <5> QED
            BY <5>1, <5>2
        <4>2. CASE ~Move(s)
          <5>1. environments' = environments
            BY <2>4, <4>2 DEF AddOwner, ReadEnvironments, ListVersions, CopyVersion,
                    NextEnvironment, NoEnvironmentLeft, LoadVersions, others, tables
          <5> QED
            BY <5>1
        <4> QED
          BY <4>1, <4>2
      <3> QED
        BY <2>1, <2>4, <3>1, <3>2, GoingOn, LiveGoesOn
    <2>5. CASE CommitNew(s) \/ CommitRename(s) \/ CommitDelete(s) \/ CommitEdit(s) \/ Fails(s)
      BY <2>1, <2>5, LiveCommits
    <2> QED
      BY <2>1, <2>2, <2>3, <2>4, <2>5 DEF Acts
  <1> QED
    BY <1>1, <1>2

(* Nothing of a deleted architecture comes back (DeletedIsGone).              *)
THEOREM DeletedStaysGone == Spec => []DeletedIsGone
  <1>1. LiveInv => DeletedIsGone
    BY DEF LiveInv, RowsLive, Live, DeletedIsGone
  <1> QED
    BY <1>1, InitLive, LiveNext, TypesHold, PTL DEF Spec

-----------------------------------------------------------------------------
(* Rows and roles.  The role is there before the row and stays; a request     *)
(* that has passed the step of the role knows an owner who has it.            *)
HasRole(x) == <<x.owner, x.id>> \in roles

Accounted(role) ==
    \/ role[2] \in abandoned \cup deleted
    \/ HasRow(role[2])
    \/ \E s \in Slot : Creates(request[s]) /\ \E x \in request[s].new : x.id = role[2]

RolesInv ==
    /\ \A x \in architectures : HasRole(x)
    /\ \A s \in Slot :
          (Creates(request[s]) /\ request[s].step # "owner") \/ request[s].kind = "rename"
          => \A x \in request[s].new : HasRole(x)
    /\ \A role \in roles : Accounted(role)

LEMMA InitRoles == Init => RolesInv
  BY DEF Init, RolesInv, NoRequest, Creates

(* A step that adds no role: what is left to show is what it does to the rows *)
(* and to the request of its slot.                                            *)
LEMMA RolesStay ==
    ASSUME TypeInv, RolesInv, NEW s \in Slot, Acts(s), roles' = roles,
           \A x \in architectures' : HasRole(x),
           (Creates(request'[s]) /\ request'[s].step # "owner") \/ request'[s].kind = "rename"
              => \A x \in request'[s].new : HasRole(x),
           abandoned \cup deleted \subseteq abandoned' \cup deleted',
           \A x \in architectures :
              x.id \in abandoned' \cup deleted' \/ \E y \in architectures' : y.id = x.id,
           Creates(request[s]) => \A x \in request[s].new :
              \/ x.id \in abandoned' \cup deleted'
              \/ \E y \in architectures' : y.id = x.id
              \/ Creates(request'[s]) /\ x \in request'[s].new
    PROVE  RolesInv'
  <1>1. \A t \in Slot \ {s} : request'[t] = request[t]
    BY OtherSlots
  <1>2. \A x \in architectures' : HasRole(x)'
    BY DEF HasRole
  <1>3. ASSUME NEW t \in Slot,
               (Creates(request'[t]) /\ request'[t].step # "owner") \/ request'[t].kind = "rename"
        PROVE  \A x \in request'[t].new : HasRole(x)'
    BY <1>1, <1>3 DEF RolesInv, HasRole
  <1>4. ASSUME NEW role \in roles PROVE Accounted(role)'
    <2>1. Accounted(role)
      BY DEF RolesInv
    <2>2. CASE HasRow(role[2])
      BY <2>2 DEF HasRow, Accounted
    <2>3. CASE role[2] \in abandoned \cup deleted
      BY <2>3 DEF Accounted
    <2>4. ASSUME NEW t \in Slot, Creates(request[t]), NEW x \in request[t].new, x.id = role[2]
          PROVE  Accounted(role)'
      <3>1. CASE t = s
        BY <2>4, <3>1 DEF Accounted, HasRow
      <3>2. CASE t # s
        BY <1>1, <2>4, <3>2 DEF Accounted
      <3> QED
        BY <3>1, <3>2
    <2> QED
      BY <2>1, <2>2, <2>3, <2>4 DEF Accounted
  <1> QED
    BY <1>2, <1>3, <1>4 DEF RolesInv

(* The step of the role.                                                      *)
LEMMA RolesAdded ==
    ASSUME TypeInv, RolesInv, NEW s \in Slot, Acts(s), AddOwner(s)
    PROVE  RolesInv'
  <1>1. \A t \in Slot \ {s} : request'[t] = request[t]
    BY OtherSlots
  <1>2. GoesOn(s) /\ Creates(request[s])
    BY GoingOn DEF AddOwner, At, Creates
  <1>3. /\ roles' = roles \cup {<<x.owner, x.id>> : x \in request[s].new}
        /\ architectures' = architectures /\ abandoned' = abandoned /\ deleted' = deleted
    BY DEF AddOwner, tables, gone
  <1>4. \A x \in architectures' : HasRole(x)'
    BY <1>3 DEF RolesInv, HasRole
  <1>5. ASSUME NEW t \in Slot,
               (Creates(request'[t]) /\ request'[t].step # "owner") \/ request'[t].kind = "rename"
        PROVE  \A x \in request'[t].new : HasRole(x)'
    <2>1. CASE t = s
      BY <1>2, <1>3, <2>1 DEF GoesOn, HasRole
    <2>2. CASE t # s
      BY <1>1, <1>3, <1>5, <2>2 DEF RolesInv, HasRole
    <2> QED
      BY <2>1, <2>2
  <1>6. ASSUME NEW role \in roles' PROVE Accounted(role)'
    <2>1. CASE role \in roles
      <3>1. Accounted(role)
        BY <2>1 DEF RolesInv
      <3>2. \A t \in Slot : /\ Creates(request[t]) => Creates(request'[t])
                            /\ request'[t].new = request[t].new
        BY <1>1, <1>2 DEF GoesOn, Creates
      <3> QED
        BY <1>3, <3>1, <3>2 DEF Accounted, HasRow
    <2>2. CASE role \notin roles
      <3>1. PICK x \in request[s].new : role = <<x.owner, x.id>>
        BY <1>3, <2>2
      <3>2. x \in request'[s].new /\ Creates(request'[s]) /\ role[2] = x.id
        BY <1>2, <3>1 DEF GoesOn, Creates
      <3> QED
        BY <3>2 DEF Accounted
    <2> QED
      BY <2>1, <2>2
  <1> QED
    BY <1>4, <1>5, <1>6 DEF RolesInv

LEMMA RolesNext == TypeInv /\ RolesInv /\ [Next]_vars => RolesInv'
  <1> SUFFICES ASSUME TypeInv, RolesInv, [Next]_vars PROVE RolesInv'
    OBVIOUS
  <1>1. CASE UNCHANGED vars
    BY <1>1 DEF vars, others, tables, gone, RolesInv, HasRole, Accounted, HasRow
  <1>2. CASE Next
    <2>1. PICK s \in Slot : Acts(s)
      BY <1>2 DEF Next
    <2>2. CASE BeginCreate(s) \/ BeginClone(s)
      <3>1. /\ roles' = roles /\ architectures' = architectures
            /\ abandoned' = abandoned /\ deleted' = deleted
            /\ request[s].kind = "none"
        BY <2>2 DEF BeginCreate, BeginClone, Allowed, tables, gone
      <3>2. request'[s].step = "owner" /\ Creates(request'[s])
        BY <2>2, StartingToMake DEF StartsToMake
      <3> QED
        BY <2>1, <3>1, <3>2, RolesStay DEF Creates, RolesInv
    <2>3. CASE BeginRename(s) \/ BeginDelete(s) \/ Run(s) \/ Promote(s)
      <3>1. /\ roles' = roles /\ architectures' = architectures
            /\ abandoned' = abandoned /\ deleted' = deleted
            /\ request[s].kind = "none"
        <4>1. CASE BeginRename(s) \/ BeginDelete(s)
          BY <4>1 DEF BeginRename, BeginDelete, Allowed, others, tables, gone
        <4>2. CASE Run(s) \/ Promote(s)
          <5>1. PICK a \in Arch, env \in Env, n \in Nat \ {0}, h \in Hash, loaded \in SUBSET Path :
                   Allowed(s, a) /\ Writes(s, a, env, n, h, loaded)
            BY <4>2, EditsWrite
          <5> QED
            BY <5>1 DEF Writes, Allowed, tables, gone
        <4> QED
          BY <2>3, <4>1, <4>2
      <3>2. StartsOther(s)
        BY <2>3, StartingOther
      <3>3. request'[s].kind = "rename" => \A y \in request'[s].new : HasRole(y)
        BY <3>2 DEF StartsOther, RolesInv, HasRole
      <3> QED
        BY <2>1, <3>1, <3>2, <3>3, RolesStay DEF StartsOther, Creates, RolesInv
    <2>4. CASE AddOwner(s)
      BY <2>1, <2>4, RolesAdded
    <2>5. CASE \/ ReadEnvironments(s) \/ ListVersions(s) \/ CopyVersion(s)
               \/ NextEnvironment(s) \/ NoEnvironmentLeft(s) \/ LoadVersions(s) \/ Move(s)
      <3>1. /\ roles' = roles /\ architectures' = architectures
            /\ abandoned' = abandoned /\ deleted' = deleted
        BY <2>5 DEF ReadEnvironments, ListVersions, CopyVersion, NextEnvironment,
                    NoEnvironmentLeft, LoadVersions, Move, others, tables, gone
      <3>2. GoesOn(s)
        BY <2>5, GoingOn
      <3>3. (Creates(request[s]) /\ request[s].step # "owner") \/ request[s].kind = "rename"
            \/ ~Creates(request[s])
        BY <2>5 DEF ReadEnvironments, ListVersions, CopyVersion, NextEnvironment,
                    NoEnvironmentLeft, LoadVersions, Move, Allowed, At, Creates
      <3>4. (Creates(request'[s]) /\ request'[s].step # "owner") \/ request'[s].kind = "rename"
            => \A x \in request'[s].new : HasRole(x)
        BY <3>2, <3>3 DEF GoesOn, RolesInv, Creates
      <3> QED
        BY <2>1, <3>1, <3>2, <3>4, RolesStay DEF GoesOn, RolesInv, Creates
    <2>6. CASE CommitNew(s) \/ CommitRename(s) \/ CommitDelete(s) \/ CommitEdit(s) \/ Fails(s)
      <3>1. request'[s].kind = "none" /\ ~Creates(request'[s])
        BY <2>6, Ending DEF NoRequest, Creates
      <3>2. roles' = roles /\ abandoned \cup deleted \subseteq abandoned' \cup deleted'
        BY <2>6 DEF CommitNew, CommitRename, CommitDelete, CommitEdit, Fails, gone
      <3>3. \A x \in architectures' : HasRole(x)
        BY <2>6 DEF CommitNew, CommitRename, CommitDelete, CommitEdit, Fails, Renames, At, Creates,
                    tables, RolesInv
      <3>4. \A x \in architectures :
               x.id \in abandoned' \cup deleted' \/ \E y \in architectures' : y.id = x.id
        <4>1. CASE CommitRename(s)
          <5>1. PICK x \in Architecture : request[s].new = {x} /\ x.id = request[s].arch
            BY <4>1 DEF CommitRename, Renames, At, TypeInv, Shape
          <5> QED
            BY <4>1, <5>1 DEF CommitRename
        <4>2. CASE ~CommitRename(s)
          BY <2>6, <4>2 DEF CommitNew, CommitDelete, CommitEdit, Fails, tables
        <4> QED
          BY <4>1, <4>2
      <3>5. Creates(request[s]) => \A x \in request[s].new :
               x.id \in abandoned' \cup deleted' \/ \E y \in architectures' : y.id = x.id
        BY <2>6 DEF CommitNew, CommitRename, Renames, CommitDelete, Deletes, CommitEdit, Adds,
                    Fails, At, Creates
      <3> QED
        BY <2>1, <3>1, <3>2, <3>3, <3>4, <3>5, RolesStay
    <2> QED
      BY <2>1, <2>2, <2>3, <2>4, <2>5, <2>6 DEF Acts
  <1> QED
    BY <1>1, <1>2

(* The database and OpenFGA agree on who owns what (RolesAgree).              *)
THEOREM RowsAndRolesAgree == Spec => []RolesAgree
  <1>1. RolesInv => RolesAgree
    BY DEF RolesInv, HasRole, Accounted, HasRow, RolesAgree
  <1> QED
    BY <1>1, InitRoles, RolesNext, TypesHold, PTL DEF Spec

-----------------------------------------------------------------------------
(* Clones.  An environment is of an architecture that has a row, a version of *)
(* an environment that has one, in the tables and in what a request adds: a   *)
(* clone that copied every environment copied every version.                  *)
AllVersions(a) == {v \in versions : v.path[1] = a}
Named(v, rows) == \E e \in rows : e.id = v.path[2]

RowsInv ==
    /\ \A e \in environments : HasRow(e.architecture)
    /\ \A v \in versions : Named(v, EnvironmentsOf(v.path[1]))
    /\ \A s \in Slot : \A v \in request[s].copy \cup request[s].addVersions :
          Named(v, request[s].addEnvironments)

(* The rows of the clone x of an environment and of a version.                *)
CloneOf(x, e) == EnvironmentRow(x.id, e.id, e.current)
CopyFor(x, v) ==
    [v EXCEPT !.path = <<x.id, v.path[2], v.path[3]>>,
              !.location = IF v.location # None THEN <<x.id, v.path[2], v.path[3]>> ELSE None]

LEMMA CopiesFor ==
    ASSUME TypeInv, NEW s \in Slot, Creates(request[s]), NEW x \in request[s].new
    PROVE  \A v \in Version :
              /\ CopyOf(s, v.path) = <<x.id, v.path[2], v.path[3]>> /\ Copied(s, v) = CopyFor(x, v)
              /\ CopyFor(x, v).path = <<x.id, v.path[2], v.path[3]>>
              /\ CopyFor(x, v).location = IF v.location # None THEN CopyFor(x, v).path ELSE None
              /\ CopyFor(x, v).hash = v.hash /\ CopyFor(x, v).tracks = v.tracks
  <1>1. request[s].new = {x}
    BY DEF TypeInv, Shape
  <1>2. (CHOOSE y \in request[s].new : TRUE) = x
    BY <1>1
  <1> SUFFICES ASSUME NEW v \in Version
               PROVE  /\ CopyOf(s, v.path) = <<x.id, v.path[2], v.path[3]>> /\ Copied(s, v) = CopyFor(x, v)
                      /\ CopyFor(x, v).path = <<x.id, v.path[2], v.path[3]>>
                      /\ CopyFor(x, v).location = IF v.location # None THEN CopyFor(x, v).path ELSE None
                      /\ CopyFor(x, v).hash = v.hash /\ CopyFor(x, v).tracks = v.tracks
    OBVIOUS
  <1>3. CopyOf(s, v.path) = <<x.id, v.path[2], v.path[3]>>
    BY <1>2 DEF CopyOf
  <1>4. Copied(s, v) = CopyFor(x, v)
    BY <1>3 DEF Copied, CopyFor
  <1> DEFINE path == <<x.id, v.path[2], v.path[3]>>
             location == IF v.location # None THEN path ELSE None
  <1>5. CopyFor(x, v) = [v EXCEPT !.path = path, !.location = location]
    BY DEF CopyFor
  <1> HIDE DEF path
  <1>6. /\ CopyFor(x, v).path = path /\ CopyFor(x, v).location = location
        /\ CopyFor(x, v).hash = v.hash /\ CopyFor(x, v).tracks = v.tracks
    <2> HIDE DEF location
    <2> QED
      BY <1>5 DEF Version
  <1> QED
    BY <1>3, <1>4, <1>6 DEF path

(* What the reads of a clone leave in its request.                            *)
LEMMA ReadFields ==
    ASSUME TypeInv, NEW s \in Slot,
           AddOwner(s) \/ ReadEnvironments(s) \/ NextEnvironment(s) \/ NoEnvironmentLeft(s)
    PROVE  /\ request'[s].copy = request[s].copy
           /\ request'[s].addEnvironments = request[s].addEnvironments
           /\ request'[s].addVersions = request[s].addVersions
           /\ objects' = objects
           /\ AddOwner(s) => /\ request'[s].step \in {"environments", "commit"}
                             /\ request[s].kind = "clone" => request'[s].step = "environments"
                             /\ request'[s].todo = request[s].todo /\ request[s].step = "owner"
           /\ ReadEnvironments(s) => /\ request'[s].todo = EnvironmentsOf(request[s].arch)
                                     /\ request'[s].step = "environment"
                                     /\ request[s].step = "environments"
           /\ NextEnvironment(s) => /\ request'[s].todo = request[s].todo /\ request[s].copy = {}
                                    /\ request'[s].step = "environment"
                                    /\ request[s].step = "versions"
           /\ NoEnvironmentLeft(s) => /\ request'[s].todo = request[s].todo /\ request[s].todo = {}
                                      /\ request'[s].step = "commit"
                                      /\ request[s].step = "environment"
  <1>1. request \in [Slot -> Request] /\ request[s] \in Request
    BY DEF TypeInv, TypeOK
  <1>2. CASE AddOwner(s)
    <2>1. ~ReadEnvironments(s) /\ ~NextEnvironment(s) /\ ~NoEnvironmentLeft(s)
      BY <1>2 DEF AddOwner, ReadEnvironments, NextEnvironment, NoEnvironmentLeft, At
    <2>2. PICK step \in {"environments", "commit"} :
            /\ request' = [request EXCEPT ![s] = [request[s] EXCEPT !.step = step]]
            /\ request[s].kind = "clone" => step = "environments"
      BY <1>2 DEF AddOwner, Becomes
    <2>3. request'[s] = [request[s] EXCEPT !.step = step] /\ objects' = objects /\ request[s].step = "owner"
      BY <1>1, <1>2, <2>2 DEF AddOwner, At
    <2> QED
      BY <1>1, <2>1, <2>2, <2>3 DEF Request
  <1>3. CASE ReadEnvironments(s)
    <2>1. ~AddOwner(s) /\ ~NextEnvironment(s) /\ ~NoEnvironmentLeft(s)
      BY <1>3 DEF AddOwner, ReadEnvironments, NextEnvironment, NoEnvironmentLeft, At
    <2>2. /\ request'[s] = [request[s] EXCEPT !.step = "environment",
                                              !.todo = EnvironmentsOf(request[s].arch)]
          /\ objects' = objects /\ request[s].step = "environments"
      BY <1>1, <1>3 DEF ReadEnvironments, Becomes, others, At
    <2> QED
      BY <1>1, <2>1, <2>2 DEF Request
  <1>4. CASE NextEnvironment(s)
    <2>1. ~AddOwner(s) /\ ~ReadEnvironments(s) /\ ~NoEnvironmentLeft(s)
      BY <1>4 DEF AddOwner, ReadEnvironments, NextEnvironment, NoEnvironmentLeft, At
    <2>2. /\ request'[s] = [request[s] EXCEPT !.step = "environment"]
          /\ objects' = objects /\ request[s].copy = {} /\ request[s].step = "versions"
      BY <1>1, <1>4 DEF NextEnvironment, Becomes, others, At
    <2> QED
      BY <1>1, <2>1, <2>2 DEF Request
  <1>5. CASE NoEnvironmentLeft(s)
    <2>1. ~AddOwner(s) /\ ~ReadEnvironments(s) /\ ~NextEnvironment(s)
      BY <1>5 DEF AddOwner, ReadEnvironments, NextEnvironment, NoEnvironmentLeft, At
    <2>2. /\ request'[s] = [request[s] EXCEPT !.step = "commit"]
          /\ objects' = objects /\ request[s].todo = {} /\ request[s].step = "environment"
      BY <1>1, <1>5 DEF NoEnvironmentLeft, Becomes, others, At
    <2> QED
      BY <1>1, <2>1, <2>2 DEF Request
  <1> QED
    BY <1>2, <1>3, <1>4, <1>5

LEMMA ListFields ==
    ASSUME TypeInv, NEW s \in Slot, ListVersions(s), NEW x \in request[s].new
    PROVE  /\ request[s].step = "environment" /\ request'[s].step = "versions"
           /\ request'[s].addVersions = request[s].addVersions /\ objects' = objects
           /\ \E e \in request[s].todo :
                 /\ request'[s].todo = request[s].todo \ {e}
                 /\ request'[s].copy = VersionsOf(request[s].arch, e.id)
                 /\ request'[s].addEnvironments = request[s].addEnvironments \cup {CloneOf(x, e)}
  <1>1. request \in [Slot -> Request] /\ request[s] \in Request
    BY DEF TypeInv, TypeOK
  <1>2. request[s].new = {x} /\ request[s].step = "environment" /\ objects' = objects
    BY DEF ListVersions, At, TypeInv, Shape, Creates, others
  <1>3. PICK e \in request[s].todo :
          request' = [request EXCEPT ![s] = [request[s] EXCEPT
             !.step = "versions", !.todo = @ \ {e},
             !.copy = VersionsOf(request[s].arch, e.id),
             !.addEnvironments = @ \cup
                 {EnvironmentRow(y.id, e.id, e.current) : y \in request[s].new}]]
    BY DEF ListVersions, Becomes
  <1> DEFINE copy == VersionsOf(request[s].arch, e.id)
             es == {EnvironmentRow(y.id, e.id, e.current) : y \in request[s].new}
  <1>4. request'[s] = [request[s] EXCEPT !.step = "versions", !.todo = @ \ {e}, !.copy = copy,
                                         !.addEnvironments = @ \cup es]
    BY <1>1, <1>3
  <1>5. es = {CloneOf(x, e)}
    BY <1>2 DEF CloneOf
  <1> HIDE DEF copy, es
  <1>6. /\ request'[s].step = "versions" /\ request'[s].addVersions = request[s].addVersions
        /\ request'[s].todo = request[s].todo \ {e} /\ request'[s].copy = copy
        /\ request'[s].addEnvironments = request[s].addEnvironments \cup es
    BY <1>1, <1>4 DEF Request
  <1> QED
    BY <1>2, <1>5, <1>6 DEF copy

LEMMA CopyFields ==
    ASSUME TypeInv, NEW s \in Slot, CopyVersion(s), NEW x \in request[s].new
    PROVE  /\ request[s].step = "versions" /\ request'[s].step = "versions"
           /\ request'[s].todo = request[s].todo
           /\ request'[s].addEnvironments = request[s].addEnvironments
           /\ \E v \in request[s].copy :
                 /\ request'[s].copy = request[s].copy \ {v}
                 /\ request'[s].addVersions = request[s].addVersions \cup {CopyFor(x, v)}
                 /\ v.location # None => objects'[CopyFor(x, v).path] = StateOf(v)
                 /\ \A l \in DOMAIN objects :
                       v.location = None \/ l # CopyFor(x, v).path => objects'[l] = objects[l]
  <1>1. request \in [Slot -> Request] /\ request[s] \in Request /\ Creates(request[s])
        /\ request[s].step = "versions"
    BY DEF TypeInv, TypeOK, CopyVersion, At, Creates
  <1>2. PICK v \in request[s].copy :
          /\ request' = [request EXCEPT ![s] = [request[s] EXCEPT
                !.copy = @ \ {v}, !.addVersions = @ \cup {Copied(s, v)}]]
          /\ objects' = [l \in DOMAIN objects \cup (IF v.location # None THEN {CopyOf(s, v.path)} ELSE {}) |->
                            IF v.location # None /\ l = CopyOf(s, v.path) THEN StateOf(v) ELSE objects[l]]
    BY DEF CopyVersion, Copied, Becomes
  <1>3. v \in Version
    BY <1>1 DEF Request
  <1>4. PICK w, path : w = CopyFor(x, v) /\ path = CopyFor(x, v).path
    OBVIOUS
  <1>5. Copied(s, v) = w /\ CopyOf(s, v.path) = path
    BY <1>1, <1>3, <1>4, CopiesFor
  <1>6. request'[s] = [request[s] EXCEPT !.copy = @ \ {v}, !.addVersions = @ \cup {w}]
    BY <1>1, <1>2, <1>5
  <1>7. /\ request'[s].step = "versions" /\ request'[s].todo = request[s].todo
        /\ request'[s].addEnvironments = request[s].addEnvironments
        /\ request'[s].copy = request[s].copy \ {v}
        /\ request'[s].addVersions = request[s].addVersions \cup {w}
    BY <1>1, <1>6 DEF Request
  <1>8. /\ v.location # None => objects'[path] = StateOf(v)
        /\ \A l \in DOMAIN objects : v.location = None \/ l # path => objects'[l] = objects[l]
    BY <1>2, <1>5
  <1> QED
    BY <1>1, <1>4, <1>7, <1>8

(* An object that is there changes only if it is the copy of a version that a *)
(* clone has copied before, or of an architecture that has a row.             *)
LEMMA ObjectSteps ==
    ASSUME TypeInv, NEW s \in Slot, Acts(s), NEW l \in DOMAIN objects
    PROVE  \/ objects'[l] = objects[l]
           \/ HasRow(l[1])
           \/ CopyVersion(s) /\ Creates(request[s]) /\ \E x \in request[s].new : l[1] = x.id
  <1>1. CASE Run(s) \/ Promote(s)
    <2>1. PICK a \in Arch, env \in Env, n \in Nat \ {0}, h \in Hash, loaded \in SUBSET Path :
             Allowed(s, a) /\ Writes(s, a, env, n, h, loaded)
      BY <1>1, EditsWrite
    <2>2. objects' = [x \in DOMAIN objects \cup {<<a, env, n>>} |->
                         IF x = <<a, env, n>> THEN hashes' ELSE objects[x]]
      BY <2>1 DEF Writes
    <2>3. CASE l = <<a, env, n>>
      BY <2>1, <2>3 DEF Allowed, HasRow
    <2>4. CASE l # <<a, env, n>>
      BY <2>2, <2>4
    <2> QED
      BY <2>3, <2>4
  <1>2. CASE CopyVersion(s)
    <2>1. Creates(request[s])
      BY <1>2 DEF CopyVersion, At, Creates
    <2>2. PICK x \in request[s].new : TRUE
      BY <2>1 DEF TypeInv, Shape
    <2>3. PICK v \in request[s].copy : \A k \in DOMAIN objects :
             v.location = None \/ k # CopyFor(x, v).path => objects'[k] = objects[k]
      BY <1>2, CopyFields
    <2>4. v \in Version
      BY DEF TypeInv, TypeOK, Request
    <2>5. l = CopyFor(x, v).path => l[1] = x.id
      BY <2>1, <2>4, CopiesFor
    <2> QED
      BY <1>2, <2>1, <2>3, <2>5
  <1>3. CASE ~(Run(s) \/ Promote(s) \/ CopyVersion(s))
    <2>1. objects' = objects
      BY <1>3 DEF Acts, BeginCreate, BeginClone, AddOwner, ReadEnvironments, ListVersions,
         NextEnvironment, NoEnvironmentLeft, BeginRename, BeginDelete, LoadVersions, Move,
         CommitNew, CommitRename, CommitDelete, CommitEdit, Fails, others
    <2> QED
      BY <2>1
  <1> QED
    BY <1>1, <1>2, <1>3

LEMMA InitRows == Init => RowsInv
  BY DEF Init, RowsInv, NoRequest

(* What the request of the acting slot holds after its step.                  *)
LEMMA HeldNamed ==
    ASSUME TypeInv, RowsInv, NEW s \in Slot, Acts(s)
    PROVE  \A v \in request'[s].copy \cup request'[s].addVersions :
              Named(v, request'[s].addEnvironments)
  <1>1. request \in [Slot -> Request] /\ request[s] \in Request
    BY DEF TypeInv, TypeOK
  <1>2. ASSUME NEW r, Becomes(s, r) PROVE request'[s] = r
    BY <1>1, <1>2 DEF Becomes
  <1>3. \A v \in request[s].copy \cup request[s].addVersions : Named(v, request[s].addEnvironments)
    BY DEF RowsInv
  <1>4. CASE BeginCreate(s)
    <2>1. PICK id \in Arch \ used, n \in Name, u \in User :
          Becomes(s, [NoRequest EXCEPT
                !.kind = "create", !.step = "owner", !.new = NewArchitecture(id, n, u),
                !.addEnvironments = {EnvironmentRow(id, env, 0) : env \in Env},
                !.addVersions = {VersionRow(id, env, 0, 0, 0, None) : env \in Env}])
      BY <1>4 DEF BeginCreate
    <2>2. /\ request'[s].copy = {}
          /\ request'[s].addEnvironments = {EnvironmentRow(id, env, 0) : env \in Env}
          /\ request'[s].addVersions = {VersionRow(id, env, 0, 0, 0, None) : env \in Env}
      BY <1>2, <2>1 DEF NoRequest
    <2>3. ASSUME NEW v \in request'[s].addVersions PROVE Named(v, request'[s].addEnvironments)
      <3>1. PICK env \in Env : v = VersionRow(id, env, 0, 0, 0, None)
        BY <2>2
      <3>2. v.path[2] = env /\ EnvironmentRow(id, env, 0).id = env
        BY <3>1 DEF VersionRow, EnvironmentRow
      <3> QED
        BY <2>2, <3>2 DEF Named
    <2> QED
      BY <2>2, <2>3
  <1>5. CASE BeginClone(s) \/ BeginRename(s) \/ BeginDelete(s)
    <2>1. request'[s].copy = {} /\ request'[s].addVersions = {}
      BY <1>2, <1>5 DEF BeginClone, BeginRename, BeginDelete, NoRequest
    <2> QED
      BY <2>1
  <1>6. CASE AddOwner(s) \/ ReadEnvironments(s) \/ NextEnvironment(s) \/ NoEnvironmentLeft(s)
    BY <1>3, <1>6, ReadFields
  <1>7. CASE LoadVersions(s) \/ Move(s)
    <2>1. /\ request'[s].copy = request[s].copy
          /\ request'[s].addEnvironments = request[s].addEnvironments
          /\ request'[s].addVersions = request[s].addVersions
      BY <1>1, <1>2, <1>7 DEF LoadVersions, Move, Request
    <2> QED
      BY <1>3, <2>1
  <1>8. CASE ListVersions(s) \/ CopyVersion(s)
    <2>1. Creates(request[s])
      BY <1>8 DEF ListVersions, CopyVersion, At, Creates
    <2>2. PICK x \in request[s].new : TRUE
      BY <2>1 DEF TypeInv, Shape
    <2>3. CASE ListVersions(s)
      <3>1. PICK e \in request[s].todo :
              /\ request'[s].copy = VersionsOf(request[s].arch, e.id)
              /\ request'[s].addEnvironments = request[s].addEnvironments \cup {CloneOf(x, e)}
              /\ request'[s].addVersions = request[s].addVersions
        BY <2>3, ListFields
      <3>2. CloneOf(x, e).id = e.id /\ \A v \in request'[s].copy : v.path[2] = e.id
        BY <3>1 DEF CloneOf, EnvironmentRow, VersionsOf
      <3> QED
        BY <1>3, <3>1, <3>2 DEF Named
    <2>4. CASE CopyVersion(s)
      <3>1. PICK v \in request[s].copy :
              /\ request'[s].copy = request[s].copy \ {v}
              /\ request'[s].addVersions = request[s].addVersions \cup {CopyFor(x, v)}
              /\ request'[s].addEnvironments = request[s].addEnvironments
        BY <2>4, CopyFields
      <3>2. v \in Version
        BY <1>1 DEF Request
      <3>3. CopyFor(x, v).path[2] = v.path[2]
        BY <2>1, <3>2, CopiesFor
      <3> QED
        BY <1>3, <3>1, <3>3 DEF Named
    <2> QED
      BY <1>8, <2>3, <2>4
  <1>9. CASE Run(s) \/ Promote(s)
    <2>1. PICK a \in Arch, env \in Env, n \in Nat \ {0}, h \in Hash, loaded \in SUBSET Path :
              Writes(s, a, env, n, h, loaded)
      BY <1>9, EditsWrite
    <2> DEFINE e == EnvironmentRow(a, env, n)
               v == VersionRow(a, env, n, hashes', h, <<a, env, n>>)
    <2>2. Becomes(s, [NoRequest EXCEPT
          !.kind = "edit", !.step = "commit", !.arch = a, !.loaded = loaded,
          !.addEnvironments = {e}, !.addVersions = {v}])
      BY <2>1 DEF Writes
    <2>3. v.path[2] = env /\ e.id = env
      BY DEF VersionRow, EnvironmentRow
    <2>4. request'[s].copy = {} /\ request'[s].addEnvironments = {e} /\ request'[s].addVersions = {v}
      <3> HIDE DEF e, v
      <3> QED
        BY <1>2, <2>2 DEF NoRequest
    <2> QED
      BY <2>3, <2>4 DEF Named
  <1>10. CASE CommitNew(s) \/ CommitRename(s) \/ CommitDelete(s) \/ CommitEdit(s) \/ Fails(s)
    BY <1>10, Ending DEF NoRequest
  <1> QED
    BY <1>4, <1>5, <1>6, <1>7, <1>8, <1>9, <1>10 DEF Acts

LEMMA RowsNext == TypeInv /\ RowsInv /\ [Next]_vars => RowsInv'
  <1> SUFFICES ASSUME TypeInv, RowsInv, [Next]_vars PROVE RowsInv'
    OBVIOUS
  <1>1. CASE UNCHANGED vars
    BY <1>1 DEF vars, others, tables, RowsInv, HasRow, Named, EnvironmentsOf
  <1>2. CASE Next
    <2>1. PICK s \in Slot : Acts(s)
      BY <1>2 DEF Next
    <2>2. ASSUME NEW t \in Slot
          PROVE  \A v \in request'[t].copy \cup request'[t].addVersions :
                    Named(v, request'[t].addEnvironments)
      <3>1. CASE t = s
        BY <2>1, <3>1, HeldNamed
      <3>2. CASE t # s
        BY <2>1, <3>2, OtherSlots DEF RowsInv
      <3> QED
        BY <3>1, <3>2
    <2>3. ASSUME NEW v \in versions'
          PROVE  \E e \in environments' : e.architecture = v.path[1] /\ e.id = v.path[2]
      <3>0. \A w \in versions : \E e \in environments : e.architecture = w.path[1] /\ e.id = w.path[2]
        BY DEF RowsInv, Named, EnvironmentsOf
      <3>1. CASE CommitNew(s)
        <4>1. Creates(request[s])
          BY <3>1 DEF CommitNew, At, Creates
        <4>2. /\ environments' = environments \cup request[s].addEnvironments
              /\ versions' = versions \cup request[s].addVersions
          BY <3>1 DEF CommitNew
        <4>3. CASE v \in request[s].addVersions
          <5>1. PICK e \in request[s].addEnvironments : e.id = v.path[2]
            BY <4>3 DEF RowsInv, Named
          <5>2. e.architecture = v.path[1]
            BY <4>1, <4>3 DEF TypeInv, Shape
          <5> QED
            BY <4>2, <5>1, <5>2
        <4> QED
          BY <3>0, <2>3, <4>2, <4>3
      <3>2. CASE CommitDelete(s)
        <4>1. v \in versions /\ v.path[1] # request[s].arch
          BY <2>3, <3>2 DEF CommitDelete
        <4> QED
          BY <3>0, <3>2, <4>1 DEF CommitDelete, EnvironmentsOf
      <3>3. CASE CommitEdit(s)
        <4>1. /\ \A e \in request[s].addEnvironments : e.architecture = request[s].arch
              /\ \A w \in request[s].addVersions : w.path[1] = request[s].arch
          BY <3>3 DEF CommitEdit, Adds, At, TypeInv, Shape
        <4>2. CASE v \in request[s].addVersions
          <5>1. PICK e \in request[s].addEnvironments : e.id = v.path[2]
            BY <4>2 DEF RowsInv, Named
          <5> QED
            BY <3>3, <4>1, <4>2, <5>1 DEF CommitEdit
        <4>3. CASE v \in versions
          <5>1. PICK e \in environments : e.architecture = v.path[1] /\ e.id = v.path[2]
            BY <3>0, <4>3
          <5>2. CASE \A f \in request[s].addEnvironments : <<e.architecture, e.id>> # <<f.architecture, f.id>>
            BY <3>3, <5>1, <5>2 DEF CommitEdit
          <5>3. CASE \E f \in request[s].addEnvironments : <<e.architecture, e.id>> = <<f.architecture, f.id>>
            BY <3>3, <5>1, <5>3 DEF CommitEdit
          <5> QED
            BY <5>2, <5>3
        <4> QED
          BY <2>3, <3>3, <4>2, <4>3 DEF CommitEdit
      <3>4. CASE Move(s)
        <4>1. PICK a \in Arch, env \in Env, w \in versions :
                environments' = {IF <<e.architecture, e.id>> = <<a, env>>
                                    THEN [e EXCEPT !.current = w.path[3]] ELSE e : e \in environments}
          BY <3>4 DEF Move, VersionsOf
        <4>2. versions' = versions
          BY <3>4 DEF Move
        <4>3. PICK e \in environments : e.architecture = v.path[1] /\ e.id = v.path[2]
          BY <2>3, <3>0, <4>2
        <4>4. /\ [e EXCEPT !.current = w.path[3]].architecture = e.architecture
              /\ [e EXCEPT !.current = w.path[3]].id = e.id
          BY DEF TypeInv, TypeOK, Environment
        <4> QED
          BY <4>1, <4>3, <4>4
      <3>5. CASE Run(s) \/ Promote(s)
        <4>1. PICK a \in Arch, env \in Env, n \in Nat \ {0}, h \in Hash, loaded \in SUBSET Path :
                  Writes(s, a, env, n, h, loaded)
          BY <3>5, EditsWrite
        <4> QED
          BY <2>3, <3>0, <4>1 DEF Writes, tables
      <3>6. CASE ~(CommitNew(s) \/ CommitDelete(s) \/ CommitEdit(s) \/ Move(s) \/ Run(s) \/ Promote(s))
        <4>1. environments' = environments /\ versions' = versions
          BY <2>1, <3>6 DEF Acts, BeginCreate, BeginClone, AddOwner, ReadEnvironments, ListVersions,
             CopyVersion, NextEnvironment, NoEnvironmentLeft, BeginRename, BeginDelete, LoadVersions,
             CommitRename, Fails, others, tables
        <4> QED
          BY <2>3, <3>0, <4>1
      <3> QED
        BY <3>1, <3>2, <3>3, <3>4, <3>5, <3>6
    <2>4. ASSUME NEW v \in versions' PROVE Named(v, EnvironmentsOf(v.path[1])')
      BY <2>3, <2>4 DEF Named, EnvironmentsOf
    <2>5. ASSUME NEW e \in environments' PROVE HasRow(e.architecture)'
      <3>1. CASE CommitNew(s)
        <4>1. PICK x \in request[s].new : \A f \in request[s].addEnvironments : f.architecture = x.id
          BY <3>1 DEF CommitNew, At, TypeInv, Shape, Creates
        <4> QED
          BY <2>5, <3>1, <4>1 DEF CommitNew, RowsInv, HasRow
      <3>2. CASE CommitRename(s)
        <4>1. PICK x \in request[s].new : x.id = request[s].arch
          BY <3>2 DEF CommitRename, Renames, At, TypeInv, Shape
        <4> QED
          BY <2>5, <3>2, <4>1 DEF CommitRename, RowsInv, HasRow
      <3>3. CASE CommitDelete(s)
        BY <2>5, <3>3 DEF CommitDelete, RowsInv, HasRow, EnvironmentsOf
      <3>4. CASE CommitEdit(s)
        <4>1. \A f \in request[s].addEnvironments : f.architecture = request[s].arch
          BY <3>4 DEF CommitEdit, Adds, At, TypeInv, Shape
        <4> QED
          BY <2>5, <3>4, <4>1 DEF CommitEdit, Adds, RowsInv, HasRow
      <3>5. CASE Move(s)
        <4>1. PICK a \in Arch, env \in Env, w \in versions :
                environments' = {IF <<f.architecture, f.id>> = <<a, env>>
                                    THEN [f EXCEPT !.current = w.path[3]] ELSE f : f \in environments}
          BY <3>5 DEF Move, VersionsOf
        <4>2. \A f \in environments : [f EXCEPT !.current = w.path[3]].architecture = f.architecture
          BY DEF TypeInv, TypeOK, Environment
        <4>3. \E f \in environments : f.architecture = e.architecture
          BY <2>5, <4>1, <4>2
        <4> QED
          BY <3>5, <4>3 DEF Move, RowsInv, HasRow
      <3>6. CASE Run(s) \/ Promote(s)
        <4>1. PICK a \in Arch, env \in Env, n \in Nat \ {0}, h \in Hash, loaded \in SUBSET Path :
                  Writes(s, a, env, n, h, loaded)
          BY <3>6, EditsWrite
        <4> QED
          BY <2>5, <4>1 DEF Writes, tables, RowsInv, HasRow
      <3>7. CASE ~(CommitNew(s) \/ CommitRename(s) \/ CommitDelete(s) \/ CommitEdit(s)
                   \/ Move(s) \/ Run(s) \/ Promote(s))
        <4>1. environments' = environments /\ architectures' = architectures
          BY <2>1, <3>7 DEF Acts, BeginCreate, BeginClone, AddOwner, ReadEnvironments, ListVersions,
             CopyVersion, NextEnvironment, NoEnvironmentLeft, BeginRename, BeginDelete, LoadVersions,
             Fails, others, tables
        <4> QED
          BY <2>5, <4>1 DEF RowsInv, HasRow
      <3> QED
        BY <3>1, <3>2, <3>3, <3>4, <3>5, <3>6, <3>7
    <2> QED
      BY <2>2, <2>4, <2>5 DEF RowsInv, Named, EnvironmentsOf
  <1> QED
    BY <1>1, <1>2

(* An architecture whose content is the same has the same rows, and they the  *)
(* same states: where the state of a version is follows from its path.        *)
LEMMA SameContent ==
    ASSUME TypeInv, KeptInv, TypeInv', KeptInv', NEW a, Content(a)' = Content(a)
    PROVE  /\ EnvironmentsOf(a)' = EnvironmentsOf(a)
           /\ AllVersions(a)' = AllVersions(a)
           /\ \A v \in AllVersions(a) : StateOf(v)' = StateOf(v)
  <1> DEFINE Point(e) == <<e.id, e.current>>
             Image(v, st) == <<v.path[2], v.path[3], v.hash, v.tracks, st>>
  <1>1. /\ {<<e.id, e.current>> : e \in EnvironmentsOf(a)'} = {<<e.id, e.current>> : e \in EnvironmentsOf(a)}
        /\ {<<v.path[2], v.path[3], v.hash, v.tracks, StateOf(v)'>> : v \in AllVersions(a)'}
           = {<<v.path[2], v.path[3], v.hash, v.tracks, StateOf(v)>> : v \in AllVersions(a)}
    BY DEF Content, AllVersions
  <1>2. ASSUME NEW e \in Environment, NEW f \in Environment, e.architecture = f.architecture,
               <<e.id, e.current>> = <<f.id, f.current>>
        PROVE  e = f
    BY <1>2 DEF Environment
  <1>3. EnvironmentsOf(a) \subseteq Environment /\ EnvironmentsOf(a)' \subseteq Environment
    BY DEF EnvironmentsOf, TypeInv, TypeOK
  <1>4. \A e \in EnvironmentsOf(a) \cup EnvironmentsOf(a)' : e.architecture = a
    BY DEF EnvironmentsOf
  <1>5. ASSUME NEW e \in EnvironmentsOf(a)' PROVE e \in EnvironmentsOf(a)
    <2>0. <<e.id, e.current>> \in {<<f.id, f.current>> : f \in EnvironmentsOf(a)'}
      BY <1>5
    <2>1. PICK f \in EnvironmentsOf(a) : <<e.id, e.current>> = <<f.id, f.current>>
      <3>1. <<e.id, e.current>> \in {<<f.id, f.current>> : f \in EnvironmentsOf(a)}
        BY <1>1, <2>0
      <3> QED
        BY <3>1
    <2>2. e \in Environment /\ f \in Environment /\ e.architecture = f.architecture
      BY <1>3, <1>4, <1>5, <2>1
    <2>3. e = f
      BY <1>2, <2>1, <2>2
    <2> QED
      BY <2>1, <2>3
  <1>6. ASSUME NEW e \in EnvironmentsOf(a) PROVE e \in EnvironmentsOf(a)'
    <2>0. <<e.id, e.current>> \in {<<f.id, f.current>> : f \in EnvironmentsOf(a)}
      BY <1>6
    <2>1. PICK f \in EnvironmentsOf(a)' : <<e.id, e.current>> = <<f.id, f.current>>
      <3>1. <<e.id, e.current>> \in {<<f.id, f.current>> : f \in EnvironmentsOf(a)'}
        BY <1>1, <2>0
      <3> QED
        BY <3>1
    <2>2. e \in Environment /\ f \in Environment /\ e.architecture = f.architecture
      BY <1>3, <1>4, <1>6, <2>1
    <2>3. e = f
      BY <1>2, <2>1, <2>2
    <2> QED
      BY <2>1, <2>3
  <1>7. AllVersions(a) \subseteq Version /\ AllVersions(a)' \subseteq Version
    BY DEF AllVersions, TypeInv, TypeOK
  <1>8. \A v \in AllVersions(a) \cup AllVersions(a)' :
           /\ v.path[1] = a
           /\ v.location = IF v.path[3] = 0 THEN None ELSE v.path
    BY DEF AllVersions, KeptInv, Kept
  <1>9. ASSUME NEW v \in AllVersions(a) \cup AllVersions(a)', NEW w \in AllVersions(a) \cup AllVersions(a)',
               v.path[2] = w.path[2], v.path[3] = w.path[3], v.hash = w.hash, v.tracks = w.tracks
        PROVE  v = w
    <2>1. v \in Version /\ w \in Version /\ v.path \in Path /\ w.path \in Path
      BY <1>7 DEF Version
    <2>2. v.path = <<v.path[1], v.path[2], v.path[3]>> /\ w.path = <<w.path[1], w.path[2], w.path[3]>>
      BY <2>1 DEF Path
    <2>3. v.path = w.path
      BY <1>8, <1>9, <2>2
    <2>4. v.location = w.location
      BY <1>8, <2>3
    <2> QED
      BY <1>9, <2>1, <2>3, <2>4 DEF Version
  <1>10. ASSUME NEW v \in AllVersions(a)' PROVE v \in AllVersions(a) /\ StateOf(v)' = StateOf(v)
    <2>1. PICK w \in AllVersions(a) : <<v.path[2], v.path[3], v.hash, v.tracks, StateOf(v)'>>
                                      = <<w.path[2], w.path[3], w.hash, w.tracks, StateOf(w)>>
      BY <1>1, <1>10
    <2>2. /\ v.path[2] = w.path[2] /\ v.path[3] = w.path[3] /\ v.hash = w.hash /\ v.tracks = w.tracks
          /\ StateOf(v)' = StateOf(w)
      BY <2>1
    <2>3. v = w
      BY <1>9, <1>10, <2>2
    <2> QED
      BY <2>2, <2>3
  <1>11. ASSUME NEW v \in AllVersions(a) PROVE v \in AllVersions(a)'
    <2>1. PICK w \in AllVersions(a)' : <<v.path[2], v.path[3], v.hash, v.tracks, StateOf(v)>>
                                       = <<w.path[2], w.path[3], w.hash, w.tracks, StateOf(w)'>>
      BY <1>1, <1>11
    <2>2. v.path[2] = w.path[2] /\ v.path[3] = w.path[3] /\ v.hash = w.hash /\ v.tracks = w.tracks
      BY <2>1
    <2> QED
      BY <1>9, <1>11, <2>2
  <1> QED
    BY <1>5, <1>6, <1>10, <1>11

(* What a request r that clones has of the environments E and the versions V  *)
(* of its source, as the clone x: nothing else, and all of the environments   *)
(* it has listed but for the versions it has yet to copy.                     *)
RowsCopied(r, x, E, V) ==
    /\ r.todo \subseteq E /\ r.copy \subseteq V
    /\ r.step # "versions" => r.copy = {}
    /\ r.step = "commit" => r.todo = {}
    /\ \A f \in r.addEnvironments : \E e \in E : f = CloneOf(x, e)
    /\ \A w \in r.addVersions : \E v \in V : w = CopyFor(x, v)
    /\ r.step \in {"environment", "versions", "commit"} =>
          /\ \A e \in E \ r.todo : CloneOf(x, e) \in r.addEnvironments
          /\ \A v \in V \ r.copy : Named(v, E \ r.todo) => CopyFor(x, v) \in r.addVersions

(* The copies that were made have the states of the versions they copy.       *)
StatesCopied(s, x) ==
    \A v \in AllVersions(request[s].arch) :
        CopyFor(x, v) \in request[s].addVersions => StateOf(CopyFor(x, v)) = StateOf(v)

CloneInv ==
    \A s \in Slot : request[s].kind = "clone" /\ s \notin touched =>
        \A x \in request[s].new :
            /\ RowsCopied(request[s], x, EnvironmentsOf(request[s].arch), AllVersions(request[s].arch))
            /\ StatesCopied(s, x)

LEMMA InitClone == Init => CloneInv
  BY DEF Init, CloneInv, NoRequest

(* A request clones because it began to, or it did before the step.           *)
LEMMA CloneGoesOn ==
    ASSUME TypeInv, NEW s \in Slot, Acts(s), request'[s].kind = "clone"
    PROVE  \/ BeginClone(s)
           \/ /\ request[s].kind = "clone" /\ GoesOn(s)
              /\ \/ AddOwner(s) \/ ReadEnvironments(s) \/ ListVersions(s) \/ CopyVersion(s)
                 \/ NextEnvironment(s) \/ NoEnvironmentLeft(s) \/ Move(s)
  <1>1. ASSUME NEW r, Becomes(s, r) PROVE request'[s] = r
    BY <1>1 DEF Becomes, TypeInv, TypeOK
  <1>2. ~BeginCreate(s)
    <2> SUFFICES ASSUME BeginCreate(s) PROVE FALSE
      OBVIOUS
    <2>1. PICK id \in Arch \ used, n \in Name, u \in User :
          Becomes(s, [NoRequest EXCEPT
                !.kind = "create", !.step = "owner", !.new = NewArchitecture(id, n, u),
                !.addEnvironments = {EnvironmentRow(id, env, 0) : env \in Env},
                !.addVersions = {VersionRow(id, env, 0, 0, 0, None) : env \in Env}])
      BY DEF BeginCreate
    <2>2. request'[s].kind = "create"
      BY <1>1, <2>1 DEF NoRequest
    <2> QED
      BY <2>2
  <1>3. ~(BeginRename(s) \/ BeginDelete(s) \/ Run(s) \/ Promote(s))
    BY StartingOther DEF StartsOther, Creates
  <1>4. ~(CommitNew(s) \/ CommitRename(s) \/ CommitDelete(s) \/ CommitEdit(s) \/ Fails(s))
    BY Ending DEF NoRequest
  <1>5. LoadVersions(s) => request[s].kind # "clone"
    BY DEF LoadVersions, At
  <1> QED
    BY <1>2, <1>3, <1>4, <1>5, GoingOn DEF Acts, GoesOn

(* The steps of others, and a move, leave a clone alone whose source did not  *)
(* change: nobody else writes an object of an architecture without a row.     *)
LEMMA CopiesStay ==
    ASSUME TypeInv, KeptInv, LiveInv, NEW s \in Slot, request[s].kind = "clone",
           NEW x \in request[s].new, NEW t \in Slot, Acts(t), t # s \/ Move(t)
    PROVE  \A w \in request[s].addVersions : StateOf(w)' = StateOf(w)
  <1> SUFFICES ASSUME NEW w \in request[s].addVersions, w.location # None
               PROVE  objects'[w.location] = objects[w.location]
    BY DEF StateOf
  <1>1. Creates(request[s]) /\ request[s].new = {x}
    BY DEF Creates, TypeInv, Shape
  <1>2. w.location = w.path /\ w.path \in DOMAIN objects
    BY DEF KeptInv, Kept
  <1>3. w.path[1] = x.id
    BY <1>1 DEF TypeInv, Shape
  <1>4. ~HasRow(x.id)
    BY <1>1 DEF LiveInv, Fresh, HasRow
  <1>5. CASE Move(t)
    BY <1>5 DEF Move
  <1>6. CASE t # s
    <2>1. ~(Creates(request[t]) /\ \E y \in request[t].new : w.path[1] = y.id)
      BY <1>1, <1>3, <1>6 DEF LiveInv, Fresh
    <2> QED
      BY <1>2, <1>3, <1>4, <2>1, ObjectSteps
  <1> QED
    BY <1>5, <1>6

(* A step of the clone itself.                                                *)
LEMMA RowsCopiedNext ==
    ASSUME TypeInv, NEW s \in Slot, request[s].kind = "clone", NEW x \in request[s].new,
           NEW E, NEW V, E = EnvironmentsOf(request[s].arch), V = AllVersions(request[s].arch),
           RowsCopied(request[s], x, E, V),
           \/ AddOwner(s) \/ ReadEnvironments(s) \/ ListVersions(s) \/ CopyVersion(s)
           \/ NextEnvironment(s) \/ NoEnvironmentLeft(s)
    PROVE  RowsCopied(request'[s], x, E, V)
  <1>1. CASE AddOwner(s)
    <2>1. /\ request'[s].step = "environments" /\ request[s].step = "owner"
          /\ request'[s].todo = request[s].todo /\ request'[s].copy = request[s].copy
          /\ request'[s].addEnvironments = request[s].addEnvironments
          /\ request'[s].addVersions = request[s].addVersions
      BY <1>1, ReadFields
    <2> QED
      BY <2>1 DEF RowsCopied
  <1>2. CASE ReadEnvironments(s)
    <2>1. /\ request'[s].step = "environment" /\ request[s].step = "environments"
          /\ request'[s].todo = E /\ request'[s].copy = request[s].copy
          /\ request'[s].addEnvironments = request[s].addEnvironments
          /\ request'[s].addVersions = request[s].addVersions
      BY <1>2, ReadFields
    <2>2. E \ request'[s].todo = {} /\ \A v : ~Named(v, {})
      BY <2>1 DEF Named
    <2> QED
      BY <2>1, <2>2 DEF RowsCopied
  <1>3. CASE NextEnvironment(s) \/ NoEnvironmentLeft(s)
    <2>1. /\ request'[s].step \in {"environment", "commit"}
          /\ request[s].step \in {"environment", "versions"}
          /\ request[s].copy = {}
          /\ request'[s].step = "commit" => request[s].todo = {}
          /\ request'[s].todo = request[s].todo /\ request'[s].copy = request[s].copy
          /\ request'[s].addEnvironments = request[s].addEnvironments
          /\ request'[s].addVersions = request[s].addVersions
      BY <1>3, ReadFields DEF RowsCopied
    <2> QED
      BY <2>1 DEF RowsCopied
  <1>4. CASE ListVersions(s)
    <2>1. PICK e \in request[s].todo :
            /\ request'[s].todo = request[s].todo \ {e}
            /\ request'[s].copy = VersionsOf(request[s].arch, e.id)
            /\ request'[s].addEnvironments = request[s].addEnvironments \cup {CloneOf(x, e)}
      BY <1>4, ListFields
    <2>2. /\ request[s].step = "environment" /\ request'[s].step = "versions"
          /\ request'[s].addVersions = request[s].addVersions
      BY <1>4, ListFields
    <2>3. request'[s].copy = {v \in V : v.path[2] = e.id}
      BY <2>1 DEF VersionsOf, AllVersions
    <2>4. e \in E /\ request[s].copy = {}
      BY <2>1, <2>2 DEF RowsCopied
    <2>5. ASSUME NEW v \in V \ request'[s].copy, Named(v, E \ request'[s].todo)
          PROVE  CopyFor(x, v) \in request'[s].addVersions
      <3>1. Named(v, E \ request[s].todo)
        BY <2>1, <2>3, <2>5 DEF Named
      <3> QED
        BY <2>2, <2>4, <2>5, <3>1 DEF RowsCopied
    <2>6. ASSUME NEW f \in E \ request'[s].todo PROVE CloneOf(x, f) \in request'[s].addEnvironments
      BY <2>1, <2>2, <2>6 DEF RowsCopied
    <2>7. \A f \in request'[s].addEnvironments : \E g \in E : f = CloneOf(x, g)
      BY <2>1, <2>4 DEF RowsCopied
    <2> QED
      BY <2>1, <2>2, <2>3, <2>5, <2>6, <2>7 DEF RowsCopied
  <1>5. CASE CopyVersion(s)
    <2>1. PICK v \in request[s].copy :
            /\ request'[s].copy = request[s].copy \ {v}
            /\ request'[s].addVersions = request[s].addVersions \cup {CopyFor(x, v)}
      BY <1>5, CopyFields
    <2>2. /\ request[s].step = "versions" /\ request'[s].step = "versions"
          /\ request'[s].todo = request[s].todo
          /\ request'[s].addEnvironments = request[s].addEnvironments
      BY <1>5, CopyFields
    <2>3. v \in V
      BY <2>1 DEF RowsCopied
    <2>4. \A w \in request'[s].addVersions : \E u \in V : w = CopyFor(x, u)
      BY <2>1, <2>3 DEF RowsCopied
    <2>5. ASSUME NEW u \in V \ request'[s].copy, Named(u, E \ request'[s].todo)
          PROVE  CopyFor(x, u) \in request'[s].addVersions
      BY <2>1, <2>2, <2>5 DEF RowsCopied
    <2> QED
      BY <2>1, <2>2, <2>4, <2>5 DEF RowsCopied
  <1> QED
    BY <1>1, <1>2, <1>3, <1>4, <1>5

LEMMA StatesCopiedNext ==
    ASSUME TypeInv, KeptInv, KeptInv', LiveInv, NEW s \in Slot, request[s].kind = "clone",
           NEW x \in request[s].new, NEW V, V = AllVersions(request[s].arch),
           RowsCopied(request[s], x, EnvironmentsOf(request[s].arch), V),
           \A v \in V : StateOf(v)' = StateOf(v),
           StatesCopied(s, x),
           \/ AddOwner(s) \/ ReadEnvironments(s) \/ ListVersions(s) \/ CopyVersion(s)
           \/ NextEnvironment(s) \/ NoEnvironmentLeft(s)
    PROVE  \A v \in V : CopyFor(x, v) \in request'[s].addVersions =>
                            StateOf(CopyFor(x, v))' = StateOf(v)'
  <1>1. Creates(request[s]) /\ V \subseteq Version
    BY DEF Creates, AllVersions, TypeInv, TypeOK
  <1>2. CASE ~CopyVersion(s)
    <2>1. request'[s].addVersions = request[s].addVersions /\ objects' = objects
      BY <1>2, ReadFields, ListFields
    <2> QED
      BY <2>1 DEF StatesCopied, StateOf
  <1>3. CASE CopyVersion(s)
    <2>1. PICK u \in request[s].copy :
            /\ request'[s].addVersions = request[s].addVersions \cup {CopyFor(x, u)}
            /\ u.location # None => objects'[CopyFor(x, u).path] = StateOf(u)
            /\ \A l \in DOMAIN objects :
                  u.location = None \/ l # CopyFor(x, u).path => objects'[l] = objects[l]
      BY <1>3, CopyFields
    <2>2. u \in V
      BY <2>1 DEF RowsCopied
    <2> SUFFICES ASSUME NEW v \in V, CopyFor(x, v) \in request'[s].addVersions
                 PROVE  StateOf(CopyFor(x, v))' = StateOf(v)
      OBVIOUS
    <2>3. PICK w : w = CopyFor(x, v)
      OBVIOUS
    <2>4. PICK z : z = CopyFor(x, u)
      OBVIOUS
    <2>5. /\ w.path = <<x.id, v.path[2], v.path[3]>>
          /\ w.location = IF v.location # None THEN w.path ELSE None
          /\ z.path = <<x.id, u.path[2], u.path[3]>>
          /\ w.path # None
      BY <1>1, <2>2, <2>3, <2>4, CopiesFor, CopyTypes, NoneAssumption
    <2>6. CASE v.location = None
      <3>1. StateOf(w)' = 0 /\ StateOf(v) = 0
        BY <2>5, <2>6 DEF StateOf
      <3> QED
        BY <2>3, <3>1
    <2>7. CASE v.location # None /\ w.path # z.path
      <3>1. w \in request[s].addVersions
        BY <2>1, <2>3, <2>4, <2>7
      <3>2. StateOf(w) = StateOf(v)
        BY <2>3, <3>1 DEF StatesCopied
      <3>3. w.location = w.path /\ w.path \in DOMAIN objects
        BY <2>5, <2>7, <3>1 DEF KeptInv, Kept
      <3>4. objects'[w.path] = objects[w.path]
        BY <2>1, <2>4, <2>7, <3>3
      <3>5. StateOf(w)' = StateOf(w)
        BY <3>3, <3>4 DEF StateOf
      <3> QED
        BY <2>3, <3>2, <3>5
    <2>8. CASE v.location # None /\ w.path = z.path
      <3>1. v.path[2] = u.path[2] /\ v.path[3] = u.path[3]
        BY <2>5, <2>8
      <3>2. v.path = u.path
        <4>1. v.path[1] = request[s].arch /\ u.path[1] = request[s].arch
          BY <2>2 DEF AllVersions
        <4>2. v.path \in Path /\ u.path \in Path
          BY <1>1, <2>2 DEF Version
        <4> QED
          BY <3>1, <4>1, <4>2 DEF Path
      <3>3. Kept(v) /\ Kept(u)
        BY <2>2 DEF AllVersions, KeptInv
      <3>4. v.location = u.location
        BY <3>2, <3>3 DEF Kept
      <3>5. StateOf(v) = StateOf(u) /\ u.location # None
        BY <2>8, <3>4 DEF StateOf
      <3>6. StateOf(w)' = objects'[z.path]
        BY <2>5, <2>8 DEF StateOf, Kept
      <3> QED
        BY <2>1, <2>3, <2>4, <3>5, <3>6
    <2> QED
      BY <2>6, <2>7, <2>8
  <1> QED
    BY <1>2, <1>3

LEMMA CloneNext ==
    TypeInv /\ TypeInv' /\ KeptInv /\ KeptInv' /\ LiveInv /\ CloneInv /\ [Next]_vars => CloneInv'
  <1> SUFFICES ASSUME TypeInv, TypeInv', KeptInv, KeptInv', LiveInv, CloneInv, [Next]_vars
               PROVE  CloneInv'
    OBVIOUS
  <1>1. CASE UNCHANGED vars
    <2> SUFFICES ASSUME NEW s \in Slot, request'[s].kind = "clone", s \notin touched',
                        NEW x \in request'[s].new
                 PROVE  /\ RowsCopied(request[s], x, EnvironmentsOf(request[s].arch),
                                      AllVersions(request[s].arch))'
                        /\ StatesCopied(s, x)'
      BY DEF CloneInv
    <2>1. /\ request' = request /\ touched' = touched /\ environments' = environments
          /\ versions' = versions /\ objects' = objects
      BY <1>1 DEF vars, others, tables
    <2>2. RowsCopied(request[s], x, EnvironmentsOf(request[s].arch), AllVersions(request[s].arch))
          /\ StatesCopied(s, x)
      BY <2>1 DEF CloneInv
    <2>3. /\ EnvironmentsOf(request[s].arch)' = EnvironmentsOf(request[s].arch)
          /\ AllVersions(request[s].arch)' = AllVersions(request[s].arch)
      BY <2>1 DEF EnvironmentsOf, AllVersions
    <2>4. ASSUME NEW w PROVE StateOf(w)' = StateOf(w)
      BY <2>1 DEF StateOf
    <2>5. PICK a : a = request[s].arch
      OBVIOUS
    <2>6. StatesCopied(s, x)'
      <3>1. SUFFICES ASSUME NEW v \in AllVersions(a), CopyFor(x, v) \in request[s].addVersions
                     PROVE  StateOf(CopyFor(x, v))' = StateOf(v)'
        BY <2>1, <2>3, <2>5 DEF StatesCopied, AllVersions
      <3>2. PICK w : w = CopyFor(x, v)
        OBVIOUS
      <3>3. StateOf(w) = StateOf(v)
        BY <2>2, <2>5, <3>1, <3>2 DEF StatesCopied
      <3>4. StateOf(w)' = StateOf(w) /\ StateOf(v)' = StateOf(v)
        BY <2>4
      <3> QED
        BY <3>2, <3>3, <3>4
    <2>7. RowsCopied(request'[s], x, EnvironmentsOf(a)', AllVersions(a)')
      BY <2>1, <2>2, <2>3, <2>5 DEF EnvironmentsOf, AllVersions
    <2> QED
      BY <2>1, <2>2, <2>5, <2>6, <2>7 DEF EnvironmentsOf, AllVersions
  <1>2. ASSUME Next, NEW s \in Slot, request'[s].kind = "clone", s \notin touched',
               NEW x \in request'[s].new, NEW a, a = request'[s].arch
        PROVE  /\ RowsCopied(request'[s], x, EnvironmentsOf(a)', AllVersions(a)')
               /\ \A v \in AllVersions(a)' : CopyFor(x, v) \in request'[s].addVersions =>
                                                StateOf(CopyFor(x, v))' = StateOf(v)'
    <2>1. PICK t \in Slot : Acts(t)
      BY <1>2 DEF Next
    <2>2. CASE request[s].kind # "clone"
      <3>1. t = s /\ BeginClone(s)
        BY <1>2, <2>1, <2>2, OtherSlots, CloneGoesOn
      <3>2. PICK b \in Arch, id \in Arch \ used, n \in Name, u \in User :
              Becomes(s, [NoRequest EXCEPT !.kind = "clone", !.step = "owner", !.arch = b,
                                           !.new = NewArchitecture(id, n, u)])
        BY <3>1 DEF BeginClone
      <3>3. /\ request'[s].step = "owner" /\ request'[s].todo = {} /\ request'[s].copy = {}
            /\ request'[s].addEnvironments = {} /\ request'[s].addVersions = {}
        BY <3>2 DEF Becomes, NoRequest, TypeInv, TypeOK
      <3> QED
        BY <3>3 DEF RowsCopied
    <2>3. CASE request[s].kind = "clone"
      <3>1. GoesOn(s)
        BY <1>2, <2>1, <2>3, OtherSlots, CloneGoesOn DEF GoesOn, BeginClone, Allowed
      <3>2. a = request[s].arch /\ x \in request[s].new /\ a \in Arch
        BY <1>2, <2>3, <3>1 DEF GoesOn, TypeInv, Shape
      <3>3. s \notin touched /\ Content(a)' = Content(a)
        BY <1>2, <2>3, <3>2 DEF Next, Touches
      <3>4. /\ EnvironmentsOf(a)' = EnvironmentsOf(a) /\ AllVersions(a)' = AllVersions(a)
            /\ \A v \in AllVersions(a) : StateOf(v)' = StateOf(v)
        BY <3>3, SameContent
      <3>5. /\ RowsCopied(request[s], x, EnvironmentsOf(a), AllVersions(a))
            /\ StatesCopied(s, x)
        BY <2>3, <3>2, <3>3 DEF CloneInv
      <3>6. CASE t # s \/ Move(t)
        <4>1. request'[s] = request[s]
          BY <2>1, <3>6, OtherSlots DEF Move
        <4>2. \A w \in request[s].addVersions : StateOf(w)' = StateOf(w)
          BY <2>1, <2>3, <3>2, <3>6, CopiesStay
        <4>3. \A v \in AllVersions(a) : CopyFor(x, v) \in request[s].addVersions =>
                                            StateOf(CopyFor(x, v)) = StateOf(v)
          BY <3>2, <3>5 DEF StatesCopied
        <4>4. ASSUME NEW v \in AllVersions(a), CopyFor(x, v) \in request[s].addVersions
              PROVE  StateOf(CopyFor(x, v))' = StateOf(v)'
          <5>1. PICK w : w = CopyFor(x, v)
            OBVIOUS
          <5>2. StateOf(w)' = StateOf(w) /\ StateOf(w) = StateOf(v) /\ StateOf(v)' = StateOf(v)
            BY <3>4, <4>2, <4>3, <4>4, <5>1
          <5> QED
            BY <5>1, <5>2
        <4> QED
          BY <3>4, <3>5, <4>1, <4>4
      <3>7. CASE t = s /\ ~Move(s)
        <4>1. \/ AddOwner(s) \/ ReadEnvironments(s) \/ ListVersions(s) \/ CopyVersion(s)
              \/ NextEnvironment(s) \/ NoEnvironmentLeft(s)
          BY <1>2, <2>1, <2>3, <3>7, CloneGoesOn DEF BeginClone, Allowed
        <4>2. RowsCopied(request'[s], x, EnvironmentsOf(a), AllVersions(a))
          BY <2>3, <3>2, <3>5, <4>1, RowsCopiedNext
        <4>3. \A v \in AllVersions(a) : CopyFor(x, v) \in request'[s].addVersions =>
                                            StateOf(CopyFor(x, v))' = StateOf(v)'
          BY <2>3, <3>2, <3>4, <3>5, <4>1, StatesCopiedNext
        <4> QED
          BY <3>4, <4>2, <4>3
      <3> QED
        BY <3>6, <3>7
    <2> QED
      BY <2>2, <2>3
  <1>3. CASE Next
    <2> SUFFICES ASSUME NEW s \in Slot, request'[s].kind = "clone", s \notin touched',
                        NEW x \in request'[s].new
                 PROVE  /\ RowsCopied(request[s], x, EnvironmentsOf(request[s].arch),
                                      AllVersions(request[s].arch))'
                        /\ StatesCopied(s, x)'
      BY DEF CloneInv
    <2>1. PICK a : a = request'[s].arch
      OBVIOUS
    <2>2. /\ RowsCopied(request'[s], x, EnvironmentsOf(a)', AllVersions(a)')
          /\ \A v \in AllVersions(a)' : CopyFor(x, v) \in request'[s].addVersions =>
                                           StateOf(CopyFor(x, v))' = StateOf(v)'
      BY <1>2, <1>3, <2>1
    <2> QED
      BY <2>1, <2>2 DEF EnvironmentsOf, AllVersions, StatesCopied
  <1> QED
    BY <1>1, <1>3

(* What a clone adds when it commits is what its source holds.                *)
LEMMA CommitsSource ==
    ASSUME TypeInv, LiveInv, RowsInv, CloneInv, NEW s \in Slot, CommitNew(s),
           request[s].kind = "clone", s \notin touched, NEW x \in request[s].new
    PROVE  Content(x.id)' = Content(request[s].arch)
  <1>1. PICK a : a = request[s].arch
    OBVIOUS
  <1>2. Creates(request[s]) /\ request[s].step = "commit" /\ request[s] \in Request
    BY DEF Creates, CommitNew, At, TypeInv, TypeOK
  <1>3. /\ RowsCopied(request[s], x, EnvironmentsOf(a), AllVersions(a))
        /\ \A v \in AllVersions(a) : CopyFor(x, v) \in request[s].addVersions =>
                                        StateOf(CopyFor(x, v)) = StateOf(v)
    BY <1>1 DEF CloneInv, StatesCopied
  <1>4. request[s].todo = {} /\ request[s].copy = {}
    BY <1>2, <1>3 DEF RowsCopied
  <1>5. ~HasRow(x.id)
    BY <1>2 DEF LiveInv, Fresh, HasRow
  <1>6. /\ environments' = environments \cup request[s].addEnvironments
        /\ versions' = versions \cup request[s].addVersions /\ objects' = objects
    BY DEF CommitNew
  <1>7. /\ \A e \in request[s].addEnvironments : e.architecture = x.id
        /\ \A v \in request[s].addVersions : v.path[1] = x.id
    BY <1>2 DEF TypeInv, Shape
  <1>8. EnvironmentsOf(x.id)' = request[s].addEnvironments
    <2>1. \A e \in environments : e.architecture # x.id
      BY <1>5 DEF RowsInv
    <2> QED
      BY <1>6, <1>7, <2>1 DEF EnvironmentsOf
  <1>9. {v \in versions' : v.path[1] = x.id} = request[s].addVersions
    <2>1. \A v \in versions : v.path[1] # x.id
      BY <1>5 DEF RowsInv, Named, EnvironmentsOf
    <2> QED
      BY <1>6, <1>7, <2>1
  <1>10. /\ \A e \in EnvironmentsOf(a) : CloneOf(x, e) \in request[s].addEnvironments
         /\ \A f \in request[s].addEnvironments : \E e \in EnvironmentsOf(a) : f = CloneOf(x, e)
    BY <1>2, <1>3, <1>4 DEF RowsCopied
  <1>11. \A e : CloneOf(x, e).id = e.id /\ CloneOf(x, e).current = e.current
    BY DEF CloneOf, EnvironmentRow
  <1>12. {<<e.id, e.current>> : e \in request[s].addEnvironments}
         = {<<e.id, e.current>> : e \in EnvironmentsOf(a)}
    BY <1>10, <1>11
  <1>13. /\ \A v \in AllVersions(a) : CopyFor(x, v) \in request[s].addVersions
         /\ \A w \in request[s].addVersions : \E v \in AllVersions(a) : w = CopyFor(x, v)
    <2>1. \A v \in AllVersions(a) : Named(v, EnvironmentsOf(a))
      BY DEF AllVersions, RowsInv
    <2>2. EnvironmentsOf(a) \ request[s].todo = EnvironmentsOf(a)
      BY <1>4
    <2> QED
      BY <1>2, <1>3, <1>4, <2>1, <2>2 DEF RowsCopied
  <1> DEFINE Image(v, st) == <<v.path[2], v.path[3], v.hash, v.tracks, st>>
  <1>14. ASSUME NEW v \in AllVersions(a), NEW w, w = CopyFor(x, v)
         PROVE  Image(w, StateOf(w)') = Image(v, StateOf(v))
    <2>1. v \in Version
      BY DEF AllVersions, TypeInv, TypeOK
    <2>2. /\ w.path = <<x.id, v.path[2], v.path[3]>> /\ w.hash = v.hash /\ w.tracks = v.tracks
      BY <1>2, <1>14, <2>1, CopiesFor
    <2>3. StateOf(w)' = StateOf(w) /\ StateOf(w) = StateOf(v)
      BY <1>3, <1>6, <1>13, <1>14 DEF StateOf
    <2> QED
      BY <2>2, <2>3
  <1>15. {Image(w, StateOf(w)') : w \in request[s].addVersions}
         = {Image(v, StateOf(v)) : v \in AllVersions(a)}
    <2>1. ASSUME NEW w \in request[s].addVersions
          PROVE  \E v \in AllVersions(a) : Image(w, StateOf(w)') = Image(v, StateOf(v))
      BY <1>13, <1>14
    <2>2. ASSUME NEW v \in AllVersions(a)
          PROVE  \E w \in request[s].addVersions : Image(w, StateOf(w)') = Image(v, StateOf(v))
      BY <1>13, <1>14
    <2> HIDE DEF Image
    <2> QED
      BY <2>1, <2>2
  <1> QED
    BY <1>1, <1>8, <1>9, <1>12, <1>15 DEF Content, AllVersions

(* The commit of a clone is that of the request that made it: nobody else     *)
(* adds its row.                                                              *)
LEMMA OwnCommit ==
    ASSUME TypeInv, LiveInv, NEW s \in Slot, Creates(request[s]), NEW x \in request[s].new,
           NEW t \in Slot, Acts(t), x \in architectures'
    PROVE  t = s /\ CommitNew(s)
  <1>1. /\ x \notin architectures
        /\ \A r \in Slot : request[r].arch # x.id
        /\ \A r \in Slot \ {s} : Creates(request[r]) => \A y \in request[r].new : y.id # x.id
    BY DEF LiveInv, Fresh
  <1>2. CASE CommitNew(t)
    <2>1. x \in request[t].new /\ Creates(request[t])
      BY <1>1, <1>2 DEF CommitNew, At, Creates
    <2> QED
      BY <1>1, <1>2, <2>1
  <1>3. ~CommitRename(t)
    <2> SUFFICES ASSUME CommitRename(t) PROVE FALSE
      OBVIOUS
    <2>1. x \in request[t].new
      BY <1>1 DEF CommitRename
    <2>2. x.id = request[t].arch
      BY <2>1 DEF CommitRename, Renames, At, TypeInv, Shape
    <2> QED
      BY <1>1, <2>2
  <1>4. ~CommitDelete(t)
    BY <1>1 DEF CommitDelete
  <1>5. ~(Run(t) \/ Promote(t))
    <2> SUFFICES ASSUME Run(t) \/ Promote(t) PROVE FALSE
      OBVIOUS
    <2>1. PICK a \in Arch, env \in Env, n \in Nat \ {0}, h \in Hash, loaded \in SUBSET Path :
              Writes(t, a, env, n, h, loaded)
      BY EditsWrite
    <2> QED
      BY <1>1, <2>1 DEF Writes, tables
  <1>6. CASE ~CommitNew(t)
    <2>1. architectures' = architectures
      BY <1>3, <1>4, <1>5, <1>6 DEF Acts, BeginCreate, BeginClone, AddOwner, ReadEnvironments,
         ListVersions, CopyVersion, NextEnvironment, NoEnvironmentLeft, BeginRename, BeginDelete,
         LoadVersions, Move, CommitEdit, Fails, others, tables
    <2> QED
      BY <1>1, <2>1
  <1> QED
    BY <1>2, <1>6

(* A clone that is committed is what its source was, whatever overlapped,     *)
(* unless the source changed while it was read (CloneIsSource).               *)
THEOREM ClonesAreTheirSource == Spec => CloneIsSource
  <1>1. Spec => []TypeInv
    BY TypesHold
  <1>2. Spec => []KeptInv
    BY <1>1, InitKept, KeptNext, PTL DEF Spec
  <1>3. Spec => []LiveInv
    BY <1>1, InitLive, LiveNext, PTL DEF Spec
  <1>4. Spec => []RowsInv
    BY <1>1, InitRows, RowsNext, PTL DEF Spec
  <1>5. Spec => []CloneInv
    BY <1>1, <1>2, <1>3, InitClone, CloneNext, PTL DEF Spec
  <1> DEFINE Same == \A s \in Slot : \A x \in request[s].new :
                request[s].kind = "clone" /\ s \notin touched /\ x \in architectures'
                => Content(x.id)' = Content(request[s].arch)
  <1>6. TypeInv /\ LiveInv /\ RowsInv /\ CloneInv /\ [Next]_vars => [Same]_vars
    <2> SUFFICES ASSUME TypeInv, LiveInv, RowsInv, CloneInv, Next,
                        NEW s \in Slot, NEW x \in request[s].new, request[s].kind = "clone",
                        s \notin touched, x \in architectures'
                 PROVE  Content(x.id)' = Content(request[s].arch)
      OBVIOUS
    <2>1. PICK t \in Slot : Acts(t)
      BY DEF Next
    <2>2. CommitNew(s)
      BY <2>1, OwnCommit DEF Creates
    <2> QED
      BY <2>2, CommitsSource
  <1> QED
    BY <1>1, <1>3, <1>4, <1>5, <1>6, PTL DEF Spec, CloneIsSource
=============================================================================
