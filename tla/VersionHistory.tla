---------------------------- MODULE VersionHistory ----------------------------
(***************************************************************************)
(* What the version store promises to one client at a time: a history of   *)
(* versions per environment, each with the state it was given when it was  *)
(* made, and a pointer to the current one.  A request is one step or none. *)
(***************************************************************************)
EXTENDS Naturals

CONSTANTS Edit,   \* the edits clients make
          NoEdit, \* the name of a version no edit made
          BaseEnv, ProdEnv

VARIABLES history, \* the versions
          pointer  \* the current version number of each environment

hvars == <<history, pointer>>

Env == {BaseEnv, ProdEnv}

\* A version: what made it, the base version it follows, the edits of its own
\* environment and its whole state.
Version == [env : Env, version : Nat, hash : Edit \cup {NoEdit},
            tracks : Edit \cup {NoEdit}, constraints : SUBSET Edit, state : SUBSET Edit]

Of(e) == {x \in history : x.env = e}
Current(x, e) == x \in Of(e) /\ x.version = pointer[e]
Fresh(h) == h \in Edit /\ \A x \in history : x.hash # h
Next1(e) == {n \in {x.version + 1 : x \in Of(e)} : \A x \in Of(e) : x.version < n}

Init ==
  /\ history = {[env |-> e, version |-> 0, hash |-> NoEdit, tracks |-> NoEdit,
                 constraints |-> {}, state |-> {}] : e \in Env}
  /\ pointer = [e \in Env |-> 0]

\* Version x, followed by one more edit; the versions in gone are forgotten.
Extend(x, h, gone) ==
  \E n \in Next1(x.env) :
    /\ history' = {y \in history : y \notin gone}
         \cup {[env |-> x.env, version |-> n, hash |-> h, tracks |-> x.tracks,
                constraints |-> {h}, state |-> x.state \cup {h}]}
    /\ pointer' = [pointer EXCEPT ![x.env] = n]

\* An edit of the current version
EditCurrent(h) ==
  Fresh(h) /\ \E e \in Env, x \in history : Current(x, e) /\ Extend(x, h, {})

\* An edit of any version, in place of what followed it
EditAndForget(h) ==
  Fresh(h) /\ \E x \in history : Extend(x, h, {y \in Of(x.env) : y.version > x.version})

\* The environment gets the state of the base and the edits of its own that
\* were made since it last followed the base.
Follow(h) ==
  /\ Fresh(h)
  /\ \E x, b \in history :
       LET kept == UNION {y.constraints : y \in {z \in Of(ProdEnv) : z.tracks = x.tracks}}
       IN  /\ Current(x, ProdEnv) /\ Current(b, BaseEnv)
           /\ x.tracks # b.hash
           /\ \A y \in Of(ProdEnv) : y.version # x.version + 1
           /\ history' = history \cup
                {[env |-> ProdEnv, version |-> x.version + 1, hash |-> h,
                  tracks |-> b.hash, constraints |-> kept, state |-> b.state \cup kept]}
           /\ pointer' = [pointer EXCEPT ![ProdEnv] = x.version + 1]

\* Undo and redo: another version becomes current, none is lost.
Move ==
  /\ \E x \in history : pointer' = [pointer EXCEPT ![x.env] = x.version]
  /\ UNCHANGED history

Next ==
  \/ \E h \in Edit : EditCurrent(h) \/ EditAndForget(h) \/ Follow(h)
  \/ Move

Spec == Init /\ [][Next]_hvars

===============================================================================
