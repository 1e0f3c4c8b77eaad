---------------------------- MODULE EdgeTargets ----------------------------
(* The targets an edge may be drawn to: updateEdgeTargets, onConnectStart and *)
(* isValidConnection of the editor, getIdToken of the web client, and the     *)
(* service that works the targets out for the current version.                *)
(*                                                                            *)
(* An update takes the version on the screen and the token, and waits for a   *)
(* refresh of the token and for the service; meanwhile versions come and go   *)
(* on the screen.  What the targets of a node are is left out: they are named *)
(* by the version they were worked out for.  A version 0 has no nodes to draw *)
(* edges from: the versions here begin with 1.                                *)
EXTENDS Naturals, FiniteSets

CONSTANTS
    Update,     \* the updates that may run at once: bounds them
    Source,     \* the nodes, which every version has, each with some targets
    Env,
    MaxVersion, \* bounds the versions of an environment
    None        \* undefined

ASSUME MaxVersionAssumption == MaxVersion \in Nat
ASSUME NoneAssumption == None \notin Source

VARIABLES
    screen,   \* environmentVersion of the store
    current,  \* the current version of each environment, in the service
    latest,   \* the latest one
    shown,    \* edgeTargetState: updating, environmentVersion, validTargets
    update,   \* per update: its step, what it is for, the token it sends
    token,    \* currentIdToken of the store
    onlyEdits \* only edits have changed the screen so far

vars == <<screen, current, latest, shown, update, token, onlyEdits>>

Version == [env : Env, version : 1 .. MaxVersion]
Token == {"old", "live"}    \* old: expired, or none at all

NoTargets == [updating |-> FALSE, version |-> 0, targets |-> [n \in Source |-> None]]

(* An update: of is the version on the screen when it began, source the one   *)
(* node it asks for, or None for all.                                         *)
NoUpdate == [step |-> "idle", of |-> None, source |-> None, token |-> "old"]
Failed == [NoUpdate EXCEPT !.step = "failed"]
Step == {"idle", "refresh", "asked", "answered", "failed"}
UpdateState == [step : Step, of : Version \cup {None}, source : Source \cup {None},
                token : Token]

Init ==
    /\ current \in [Env -> 1 .. MaxVersion] /\ latest = current
    /\ \E e \in Env : screen = [env |-> e, version |-> current[e]]
    /\ shown = NoTargets
    /\ update = [u \in Update |-> NoUpdate]
    /\ token \in Token
    /\ onlyEdits = TRUE

-----------------------------------------------------------------------------
(* getIdToken reads the token when it is called.  A live one is used at once; *)
(* else it is refreshed, the new one is stored, and the one that was read is  *)
(* what it returns: the new one has the same name in an inner block.          *)
BugAlwaysRefreshes(u, on, source, base) ==
    /\ update[u].step = "idle"
    /\ update' = [update EXCEPT ![u] =
         [step |-> "refresh", of |-> on, source |-> source, token |-> "old"]]
    /\ shown' = base

Starts(u, on, source, base) ==
    /\ update[u].step = "idle"
    /\ update' = [update EXCEPT ![u] =
         [step |-> IF token = "live" THEN "asked" ELSE "refresh",
          of |-> on, source |-> source, token |-> token]]
    /\ shown' = IF token = "live" THEN [base EXCEPT !.updating = TRUE] ELSE base

Refreshed(u) ==
    /\ update[u].step = "refresh"
    /\ token' = "live"
    /\ update' = [update EXCEPT ![u].step = "asked"]
    /\ shown' = [shown EXCEPT !.updating = TRUE]
    /\ UNCHANGED <<screen, current, latest, onlyEdits>>

(* The session has expired: getIdToken throws, before "updating" is set.  Or  *)
(* nobody is signed in: it returns no token.                                  *)
RefreshFails(u) ==
    /\ update[u].step = "refresh"
    /\ update' = [update EXCEPT ![u] = NoUpdate]
    /\ UNCHANGED <<screen, current, latest, shown, token, onlyEdits>>

NotSignedIn(u) ==
    /\ update[u].step = "refresh" /\ token = "old"
    /\ update' = [update EXCEPT ![u].step = "asked"]
    /\ shown' = [shown EXCEPT !.updating = TRUE]
    /\ UNCHANGED <<screen, current, latest, token, onlyEdits>>

Expire ==
    /\ token = "live"
    /\ token' = "old"
    /\ UNCHANGED <<screen, current, latest, shown, update, onlyEdits>>

-----------------------------------------------------------------------------
(* What is on the screen.                                                     *)
BugReset == [shown EXCEPT !.updating = FALSE]

Reset == NoTargets

(* applyConstraints and sendChatMessage: the new version is on the screen,    *)
(* the targets are forgotten and all are asked for.                           *)
Edit(u) ==
    /\ current[screen.env] = screen.version
    /\ latest[screen.env] < MaxVersion
    /\ latest' = [latest EXCEPT ![screen.env] = @ + 1]
    /\ current' = [current EXCEPT ![screen.env] = latest'[screen.env]]
    /\ screen' = [screen EXCEPT !.version = latest'[screen.env]]
    /\ Starts(u, screen', None, Reset)
    /\ UNCHANGED <<token, onlyEdits>>

(* refreshArchitecture: after an edit that failed, or to change environment.  *)
(* It shows the version that was current when the service was asked.  The     *)
(* targets stay until those that are asked for arrive.                        *)
Refresh(u) ==
    /\ \E e \in Env, v \in 1 .. MaxVersion :
          v <= latest[e] /\ screen' = [env |-> e, version |-> v]
    /\ Starts(u, screen', None, shown)
    /\ onlyEdits' = FALSE
    /\ UNCHANGED <<current, latest, token>>

(* goToPreviousState, goToNextState: the targets are neither forgotten nor    *)
(* asked for.  The service follows when its call is made, or never.           *)
GoTo ==
    /\ \E v \in 1 .. latest[screen.env] : screen' = [screen EXCEPT !.version = v]
    /\ onlyEdits' = FALSE
    /\ UNCHANGED <<current, latest, shown, update, token>>

SetCurrent ==
    /\ current' = [current EXCEPT ![screen.env] = screen.version]
    /\ UNCHANGED <<screen, latest, shown, update, token, onlyEdits>>

OtherUser(e) ==
    /\ latest[e] < MaxVersion
    /\ latest' = [latest EXCEPT ![e] = @ + 1]
    /\ current' = [current EXCEPT ![e] = latest'[e]]
    /\ UNCHANGED <<screen, shown, update, token, onlyEdits>>

(* onConnectStart                                                             *)
MustAsk(n) == shown.version # screen.version \/ shown.targets[n] = None

ConnectStart(u, n) ==
    /\ MustAsk(n)
    /\ Starts(u, screen, n, shown)
    /\ UNCHANGED <<screen, current, latest, token, onlyEdits>>

-----------------------------------------------------------------------------
(* get_valid_edge_targets answers for the current version only, and for who   *)
(* may read: not with a token that has expired, and without one only if       *)
(* everybody may.                                                             *)
Answer(u) ==
    /\ update[u].step = "asked"
    /\ \E reads \in BOOLEAN :
          /\ update[u].token = "live" => reads
          /\ update' = [update EXCEPT ![u] =
               IF reads /\ current[@.of.env] = @.of.version
               THEN [@ EXCEPT !.step = "answered", !.token = "old"] ELSE Failed]
    /\ UNCHANGED <<screen, current, latest, shown, token, onlyEdits>>

NoAnswer(u) ==
    /\ update[u].step = "asked"
    /\ update' = [update EXCEPT ![u] = Failed]
    /\ UNCHANGED <<screen, current, latest, shown, token, onlyEdits>>

IsOfScreen(v) == v = screen

(* The targets of the answer; a partial one keeps those of the other nodes,   *)
(* whatever they were worked out for.                                         *)
Targets(u) ==
    [n \in Source |-> IF update[u].source \in {None, n} THEN update[u].of ELSE shown.targets[n]]

Receive(u) ==
    /\ update[u].step = "answered"
    /\ IsOfScreen(update[u].of)
    /\ shown' = [updating |-> FALSE, version |-> screen.version, targets |-> Targets(u)]
    /\ update' = [update EXCEPT ![u] = NoUpdate]
    /\ UNCHANGED <<screen, current, latest, token, onlyEdits>>

BugNotUpdating == shown

NotUpdating == [shown EXCEPT !.updating = FALSE]

(* The screen shows another version by now, or the call failed.               *)
Ignore(u) ==
    /\ \/ update[u].step = "failed"
       \/ update[u].step = "answered" /\ ~IsOfScreen(update[u].of)
    /\ shown' = NotUpdating
    /\ update' = [update EXCEPT ![u] = NoUpdate]
    /\ UNCHANGED <<screen, current, latest, token, onlyEdits>>

Next ==
    \/ \E u \in Update :
          \/ Edit(u) \/ Refresh(u) \/ \E n \in Source : ConnectStart(u, n)
          \/ Refreshed(u) \/ RefreshFails(u) \/ NotSignedIn(u)
          \/ Answer(u) \/ NoAnswer(u) \/ Receive(u) \/ Ignore(u)
    \/ Expire \/ GoTo \/ SetCurrent \/ \E e \in Env : OtherUser(e)

Spec == Init /\ [][Next]_vars

(* Calls are answered, and the user keeps trying to draw an edge from a node. *)
Fairness ==
    /\ \A u \in Update :
          /\ WF_vars(Refreshed(u)) /\ WF_vars(Answer(u))
          /\ WF_vars(Receive(u)) /\ WF_vars(Ignore(u))
    /\ \A n \in Source : WF_vars(\E u \in Update : ConnectStart(u, n))

LiveSpec == Spec /\ Fairness

-----------------------------------------------------------------------------
(* Properties.                                                                *)

(* The types of the variables.                                                *)
TypeOK ==
    /\ screen \in Version
    /\ current \in [Env -> 1 .. MaxVersion] /\ latest \in [Env -> 1 .. MaxVersion]
    /\ shown \in [updating : BOOLEAN, version : 0 .. MaxVersion,
                  targets : [Source -> Version \cup {None}]]
    /\ update \in [Update -> UpdateState]
    /\ token \in Token
    /\ onlyEdits \in BOOLEAN

(* isValidConnection goes by the targets if they bear the version of the      *)
(* screen: then they are those of that version, as long as only edits change  *)
(* the screen.  After an undo, a refresh or a change of environment, where    *)
(* the versions have the same numbers, they may be those of another one.      *)
TargetsOfScreen ==
    onlyEdits /\ shown.version = screen.version
        => \A n \in Source : shown.targets[n] \in {None, screen}

(* The targets are marked as being updated only while an update is under way, *)
(* whichever of several ends first (updateEdgeTargets).                       *)
UpdatingMeansWaiting ==
    shown.updating => \E u \in Update : update[u].step \in {"asked", "answered", "failed"}

(* A user who keeps drawing edges gets to know the targets, if from some time *)
(* on the screen and the service agree and stay as they are, the token does   *)
(* not expire, and no refresh and no call with a live token is lost: the call *)
(* that refreshes the token may be refused, for it sends the old one, and the *)
(* next one is not (getIdToken, onConnectStart).                              *)
Calm == [][/\ UNCHANGED <<screen, current>>
           /\ ~Expire
           /\ \A u \in Update :
                 /\ ~RefreshFails(u) /\ ~NotSignedIn(u)
                 /\ ~(update[u].token = "live" /\ NoAnswer(u))]_vars

KnowsInTheEnd ==
    <>Calm /\ <>[](current[screen.env] = screen.version)
        => <>[](\A n \in Source : ~MustAsk(n))
=============================================================================
