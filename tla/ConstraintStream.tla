-------------------------- MODULE ConstraintStream --------------------------
(* The constraints a promotion works with (EnvironmentManager.promote): those *)
(* of the base since the version the environment tracks, for the resources    *)
(* they rename, and those made in the environment, its overrides, which the   *)
(* engine applies to the state of the base.                                   *)
(*                                                                            *)
(* Both lists are folded by the same two loops, modelled here one turn at a   *)
(* time: the inner one takes elements out of the list it walks over.  Names   *)
(* change, resources do not: a resource is here what keeps its overrides      *)
(* when the base renames it.  Other requests are left to VersionStore.        *)
EXTENDS Naturals, Sequences, FiniteSets

CONSTANTS
    Resource, Name, Property, Value,
    MaxBase,   \* bounds the versions of the base that are ever made
    MaxMade    \* bounds the overrides that are ever made

ASSUME BoundsAssumption == MaxBase \in Nat /\ MaxMade \in Nat

(* ConstraintOperator.  Equals is the only one that cancels; Remove is parsed *)
(* and kept as Add is.                                                        *)
Operator == {"equals", "add"}
ResourceConstraint ==
    [operator : Operator, target : Name, property : Property, value : Value]
Replace == [operator : {"replace"}, target : Name, replacement : Name]
Constraint == ResourceConstraint \cup Replace

(* A resource constraint by its resource, whatever its name.                  *)
Made == [operator : Operator, resource : Resource, property : Property, value : Value]

Naming == {f \in [Resource -> Name] : \A r, q \in Resource : f[r] = f[q] => r = q}

VARIABLES
    base,      \* the versions of the base: hash, constraint, names of the resources
    current,   \* the hash of its current version
    drawn,     \* hashes: 0 .. drawn
    tracks,    \* the hash the environment tracks
    overrides, \* the constraints of the versions that track it, in their order
    names,     \* the names of the resources in the environment
    made,      \* every override that was ever made, by resource
    strayed,   \* a promotion has taken place while the base was moved back
    promotion  \* the promotion under way

vars == <<base, current, drawn, tracks, overrides, names, made, strayed, promotion>>

Hash == 0 .. MaxBase
Version == [hash : Hash, constraint : Constraint \cup {<< >>}, names : Naming]
IndexOf(h) == CHOOSE i \in DOMAIN base : base[i].hash = h

(* step: which list is folded, or that names are substituted; rest: what is   *)
(* still to come; kept: the list so far; at: the position of the inner loop;  *)
(* stream: the folded constraints of the base.                                *)
Promotion ==
    [step : {"idle", "stream", "overrides", "names"}, rest : Seq(Constraint),
     kept : Seq(Constraint), at : Nat \ {0}, stream : Seq(Constraint)]
Idle == [step |-> "idle", rest |-> << >>, kept |-> << >>, at |-> 1, stream |-> << >>]

Init ==
    \E f \in Naming :
        /\ base = <<[hash |-> 0, constraint |-> << >>, names |-> f]>>
        /\ names = f
        /\ current = 0 /\ drawn = 0 /\ tracks = 0
        /\ overrides = << >> /\ made = << >>
        /\ strayed = FALSE
        /\ promotion = Idle

-----------------------------------------------------------------------------
(* A bound: a promotion that strays is the last request of a behaviour.       *)
Ready == promotion = Idle /\ ~strayed
Over == promotion = Idle /\ strayed /\ UNCHANGED vars

(* A run in the base, one constraint each; after an undo the editor overwrites *)
(* the versions that follow.                                                  *)
EditBase(constraint, f) ==
    /\ Ready /\ drawn < MaxBase
    /\ drawn' = drawn + 1
    /\ current' = drawn'
    /\ base' = Append(SubSeq(base, 1, IndexOf(current)),
                      [hash |-> drawn', constraint |-> constraint, names |-> f])
    /\ UNCHANGED <<tracks, overrides, names, made, strayed, promotion>>

BaseNames == base[IndexOf(current)].names

Rename(r, n) ==
    /\ \A q \in Resource : BaseNames[q] # n
    /\ EditBase([operator |-> "replace", target |-> BaseNames[r], replacement |-> n],
                [BaseNames EXCEPT ![r] = n])

Configure(r, op, p, v) ==
    EditBase([operator |-> op, target |-> BaseNames[r], property |-> p, value |-> v], BaseNames)

Undo ==
    /\ Ready
    /\ \E i \in DOMAIN base : current' = base[i].hash
    /\ UNCHANGED <<base, drawn, tracks, overrides, names, made, strayed, promotion>>

(* A run in the environment, where only resource constraints are allowed.     *)
Override(r, op, p, v) ==
    /\ Ready /\ Len(made) < MaxMade
    /\ overrides' = Append(overrides,
          [operator |-> op, target |-> names[r], property |-> p, value |-> v])
    /\ made' = Append(made, [operator |-> op, resource |-> r, property |-> p, value |-> v])
    /\ UNCHANGED <<base, current, drawn, tracks, names, strayed, promotion>>

-----------------------------------------------------------------------------
(* get_all_versions_after_hash: those after the tracked version, whichever is *)
(* current.  It raises if the tracked version was deleted.                    *)
BugSinceTracked == LET i == IndexOf(tracks) IN
    [k \in 1 .. Len(base) - i + 1 |-> base[i + k - 1].constraint]

SinceTracked == LET i == IndexOf(tracks) IN
    [k \in 1 .. Len(base) - i |-> base[i + k].constraint]

Promote ==
    /\ Ready
    /\ current # tracks
    /\ \E i \in DOMAIN base : base[i].hash = tracks
    /\ promotion' = [Idle EXCEPT !.step = "stream", !.rest = SinceTracked]
    /\ strayed' = (strayed \/ IndexOf(current) # Len(base))
    /\ UNCHANGED <<base, current, drawn, tracks, overrides, names, made>>

Folds == promotion.step \in {"stream", "overrides"}
Incoming == Head(promotion.rest)

(* ResourceConstraint.cancels_out; the other classes cancel nothing.          *)
BugCancelsOut(c, d) ==
    /\ {c, d} \subseteq ResourceConstraint
    /\ c.target = d.target /\ c.property = d.property

CancelsOut(c, d) ==
    /\ {c, d} \subseteq ResourceConstraint
    /\ c.target = d.target /\ c.property = d.property
    /\ c.operator = "equals"

(* list.remove takes out the first equal element.                             *)
Without(list, c) == LET i == CHOOSE k \in DOMAIN list :
                            list[k] = c /\ \A j \in DOMAIN list : list[j] = c => k <= j
                    IN SubSeq(list, 1, i - 1) \o SubSeq(list, i + 1, Len(list))

(* One turn of "for c in constraints".  The walk goes on at the next position *)
(* of a list that has become shorter: it passes over one element.             *)
Walk ==
    /\ Folds /\ promotion.rest # << >>
    /\ promotion.at <= Len(promotion.kept)
    /\ promotion' = [promotion EXCEPT !.at = @ + 1, !.kept =
          IF CancelsOut(Incoming, @[promotion.at]) THEN Without(@, @[promotion.at]) ELSE @]
    /\ UNCHANGED <<base, current, drawn, tracks, overrides, names, made, strayed>>

Keep ==
    /\ Folds /\ promotion.rest # << >>
    /\ promotion.at > Len(promotion.kept)
    /\ promotion' = [promotion EXCEPT !.kept = Append(@, Incoming), !.rest = Tail(@), !.at = 1]
    /\ UNCHANGED <<base, current, drawn, tracks, overrides, names, made, strayed>>

StreamDone ==
    /\ promotion.step = "stream" /\ promotion.rest = << >>
    /\ promotion' = [Idle EXCEPT !.step = "overrides", !.rest = overrides,
                                 !.stream = promotion.kept]
    /\ UNCHANGED <<base, current, drawn, tracks, overrides, names, made, strayed>>

OverridesDone ==
    /\ promotion.step = "overrides" /\ promotion.rest = << >>
    /\ promotion' = [promotion EXCEPT !.step = "names", !.rest = promotion.stream]
    /\ UNCHANGED <<base, current, drawn, tracks, overrides, names, made, strayed>>

(* substitute_name_changes                                                    *)
Substitute(list, c) ==
    [k \in DOMAIN list |->
        IF list[k].target = c.target THEN [list[k] EXCEPT !.target = c.replacement] ELSE list[k]]

SubstituteNext ==
    /\ promotion.step = "names" /\ promotion.rest # << >>
    /\ promotion' = [promotion EXCEPT !.rest = Tail(@), !.kept =
          IF Incoming \in Replace THEN Substitute(@, Incoming) ELSE @]
    /\ UNCHANGED <<base, current, drawn, tracks, overrides, names, made, strayed>>

(* The new version has the overrides for its constraints, and tracks the      *)
(* current version of the base, whose resources it has.  No other version     *)
(* tracks that one, unless the base was moved back.                           *)
Promoted ==
    /\ promotion.step = "names" /\ promotion.rest = << >>
    /\ overrides' = promotion.kept
    /\ tracks' = current
    /\ names' = BaseNames
    /\ promotion' = Idle
    /\ UNCHANGED <<base, current, drawn, made, strayed>>

(* The engine fails, or changes the topology.                                 *)
Refused ==
    /\ promotion.step = "names" /\ promotion.rest = << >>
    /\ promotion' = Idle
    /\ UNCHANGED <<base, current, drawn, tracks, overrides, names, made, strayed>>

Next ==
    \/ \E r \in Resource, n \in Name : Rename(r, n)
    \/ \E r \in Resource, op \in Operator, p \in Property, v \in Value :
          Configure(r, op, p, v) \/ Override(r, op, p, v)
    \/ Undo \/ Promote \/ Walk \/ Keep \/ StreamDone \/ OverridesDone
    \/ SubstituteNext \/ Promoted \/ Refused \/ Over

Spec == Init /\ [][Next]_vars

-----------------------------------------------------------------------------
(* Properties.                                                                *)

(* The types of the variables.                                                *)
TypeOK ==
    /\ base \in Seq(Version)
    /\ current \in Hash /\ drawn \in Hash /\ tracks \in Hash
    /\ overrides \in Seq(ResourceConstraint)
    /\ made \in Seq(Made)
    /\ names \in Naming
    /\ strayed \in BOOLEAN
    /\ promotion \in Promotion

(* c takes the place of d: an Equals on the same property.                    *)
Overrules(c, d) ==
    c.operator = "equals" /\ c.target = d.target /\ c.property = d.property

(* The positions of a list that count: nothing later overrules them.          *)
Standing(list) ==
    {i \in DOMAIN list : ~\E j \in DOMAIN list : j > i /\ Overrules(list[j], list[i])}

(* The same constraints count in both lists, in the same order.               *)
SameStanding(s, t) ==
    \E g \in [Standing(s) -> Standing(t)] :
        /\ \A i, j \in Standing(s) : i < j => g[i] < g[j]
        /\ \A k \in Standing(t) : \E i \in Standing(s) : g[i] = k
        /\ \A i \in Standing(s) : t[g[i]] = s[i]

(* All that was ever made in the environment, by the names in f.              *)
Under(f) == [i \in DOMAIN made |->
    [operator |-> made[i].operator, target |-> f[made[i].resource],
     property |-> made[i].property, value |-> made[i].value]]

(* Overrides survive: of those made in the environment, the ones that count   *)
(* are, in their order, the ones that count in the environment now, under the *)
(* present names of their resources, however often it was promoted and        *)
(* whatever the base renamed, also to a name another resource had.  The turn  *)
(* the inner loop passes over leaves constraints that do not count.  It does  *)
(* not hold once a promotion was made while the base was moved back.          *)
OverridesSurvive == ~strayed => SameStanding(Under(names), overrides)
=============================================================================
