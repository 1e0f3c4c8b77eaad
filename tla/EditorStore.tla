---------------------------- MODULE EditorStore ----------------------------
(* The editor store of the web client (src/frontend/.../EditorStore.ts): what *)
(* the user sees of one architecture, the versions undo and redo lead to, and *)
(* the asynchronous functions that bring them up to date.                     *)
(*                                                                            *)
(* A step of a function is the code between two awaits; a call to the server  *)
(* is a step that sends it, a step of the server and a step that takes the    *)
(* answer.  The server is one step per request here: what it does when its    *)
(* own requests interleave is the subject of VersionStore.                    *)
EXTENDS Integers, FiniteSets

CONSTANTS
    Job,        \* functions of the store that may run at once
    Env,        \* the environments of the architecture
    DefaultEnv, \* the one an editor opens
    NoVersion,  \* undefined
    Ops,        \* what users do: see AllOps
    Faults,     \* the calls that may fail: see AllFaults
    Patient,    \* the user waits for all that is running before the next click
    Earlier,    \* at most this many versions were made before the page was opened
    MaxEdits    \* edits of a behaviour, the earlier ones included

AllOps == {"apply", "undo", "redo", "switch", "chat", "other"}
AllFaults == {"run", "refresh", "move", "look"}

ASSUME OpsAssumption == Ops \subseteq AllOps /\ Faults \subseteq AllFaults
ASSUME PatientAssumption == Patient \in BOOLEAN
ASSUME BoundsAssumption == Earlier \in Nat /\ MaxEdits \in Nat /\ Earlier <= MaxEdits

VARIABLES
    rows,                \* server: the versions there are
    current,             \* server: the current version number of each environment
    made,                \* the edits entered so far are 1..made
    environmentVersion,  \* the version on screen
    previousState,       \* where undo leads, or NoVersion
    nextState,           \* where redo leads, or NoVersion
    willOverwriteState,  \* the next apply overwrites what follows its version
    canApplyConstraints, \* no apply is running
    unappliedConstraints,\* edits entered and not yet applied
    job,                 \* the functions that are running
    lookups              \* the detached lookups refreshArchitecture started

server == <<rows, current>>
neighbours == <<previousState, nextState, willOverwriteState>>
queue == <<canApplyConstraints, unappliedConstraints>>
screen == <<environmentVersion, neighbours, queue>>
vars == <<server, made, screen, job, lookups>>

-----------------------------------------------------------------------------
(* Versions and the server.                                                   *)

Edit == 1..MaxEdits
Number == 0..MaxEdits

(* A version with all the edits its state has, and the ones it was made for.  *)
Version == [env : Env, version : Number, edits : SUBSET Edit, adds : SUBSET Edit]
OptVersion == Version \cup {NoVersion}

ASSUME EnvAssumption == DefaultEnv \in Env /\ NoVersion \notin Version

RowsOf(e) == {r \in rows : r.env = e}
RowAt(e, n) == {r \in RowsOf(e) : r.version = n}
After(e, n) == {r \in RowsOf(e) : r.version > n}
Before(e, n) == {r \in RowsOf(e) : r.version < n}

(* The versions the server answers to a question for the current, the next or *)
(* the previous one; it answers 404 if there is none.                         *)
Only(S) == IF S = {} THEN NoVersion ELSE CHOOSE r \in S : TRUE
CurrentRow(e) == Only(RowAt(e, current[e]))
NextRow(e, n) == Only({r \in After(e, n) : \A s \in After(e, n) : r.version <= s.version})
PrevRow(e, n) == Only({r \in Before(e, n) : \A s \in Before(e, n) : r.version >= s.version})

LatestNumber(e) == CHOOSE n \in {r.version : r \in RowsOf(e)} : After(e, n) = {}

BugNewRow(r, adds) ==
    [env |-> r.env, version |-> r.version + 1, edits |-> r.edits \cup adds, adds |-> adds]

(* The latest number is read before an overwrite deletes anything.            *)
NewRow(r, adds) ==
    [env |-> r.env, version |-> LatestNumber(r.env) + 1,
     edits |-> r.edits \cup adds, adds |-> adds]

(* do_run: what a run of version n makes the server answer.                   *)
RunBase(e, n, overwrite) ==
    IF CurrentRow(e) = NoVersion \/ (~overwrite /\ n # current[e]) THEN NoVersion
    ELSE Only(RowAt(e, n))

CommitRun(r, adds, overwrite) ==
    /\ rows' = (rows \ (IF overwrite THEN After(r.env, r.version) ELSE {}))
               \cup {NewRow(r, adds)}
    /\ current' = [current EXCEPT ![r.env] = NewRow(r, adds).version]

-----------------------------------------------------------------------------
(* The jobs.  ev: the version a function started from; env, version: what it  *)
(* asked the server; edits: the constraints it sent; overwrite: the flag it   *)
(* sent; answer: what the server answered, NoVersion also for an error.       *)
Kind == {"none", "apply", "chat", "undo", "redo", "switch"}
Step == {"idle", "token", "layout", "sent", "query", "answered", "error", "refresh",
         "refreshed", "unreachable", "moved", "beyond", "asked", "found"}
JobState == [kind : Kind, step : Step, ev : OptVersion, env : Env, version : Number,
             edits : SUBSET Edit, overwrite : BOOLEAN, answer : OptVersion]

NoJob == [kind |-> "none", step |-> "idle", ev |-> NoVersion, env |-> DefaultEnv,
          version |-> 0, edits |-> {}, overwrite |-> FALSE, answer |-> NoVersion]

Running(j) == job[j].kind # "none"
At(j, kinds, step) == job[j].kind \in kinds /\ job[j].step = step
Ends(j) == job' = [job EXCEPT ![j] = NoJob]
Goes(j, step) == job' = [job EXCEPT ![j].step = step]

(* refreshArchitecture asks for the neighbours of the version it got without  *)
(* waiting for the answer.                                                    *)
Lookup == [of : Version, step : {"next", "prev", "done"}, next : OptVersion, prev : OptVersion]
LookupOf(r) == [of |-> r, step |-> "next", next |-> NoVersion, prev |-> NoVersion]

(* A page that was just opened on an architecture with some history.          *)
EarlierVersion(n) ==
    [env |-> DefaultEnv, version |-> n, edits |-> 1..n, adds |-> IF n = 0 THEN {} ELSE {n}]
FirstVersion(e) == [env |-> e, version |-> 0, edits |-> {}, adds |-> {}]

Init ==
    /\ \E n \in 0..Earlier :
          /\ made = n
          /\ rows = {FirstVersion(e) : e \in Env} \cup {EarlierVersion(i) : i \in 0..n}
          /\ \E c \in 0..n :
                /\ current = [e \in Env |-> IF e = DefaultEnv THEN c ELSE 0]
                /\ environmentVersion = EarlierVersion(c)
                /\ lookups = {LookupOf(EarlierVersion(c))}
    /\ previousState = NoVersion
    /\ nextState = NoVersion
    /\ willOverwriteState = FALSE
    /\ canApplyConstraints = TRUE
    /\ unappliedConstraints = {}
    /\ job = [j \in Job |-> NoJob]

-----------------------------------------------------------------------------
(* The user.  The overlays of EditorPane, VersionNavigator and                *)
(* EnvironmentSection cover the page while an apply, undo, redo or change of  *)
(* environment runs; a chat message and a lookup show none.  They take the    *)
(* clicks; Enter in a form or in the chat still arrives.                      *)
Covered ==
    \/ ~canApplyConstraints
    \/ \E j \in Job : job[j].kind \in {"undo", "redo", "switch"}

MayStart(op, j) ==
    /\ op \in Ops
    /\ ~Running(j)
    /\ Patient => lookups = {} /\ \A i \in Job : ~Running(i)

MayClick(op, j) == MayStart(op, j) /\ ~Covered

NewEdit == made < MaxEdits /\ made' = made + 1

(* deleteElements, onConnect, addGraphElements and replaceResource put their  *)
(* constraints in the queue and apply it; ConfigForm passes its own along.    *)
(* applyConstraints raises while another one runs.                            *)
Apply(j) ==
    /\ MayStart("apply", j)
    /\ canApplyConstraints
    /\ NewEdit
    /\ \E own \in {{}, {made'}} :
          /\ own = {} => ~Covered
          /\ unappliedConstraints' = unappliedConstraints \cup ({made'} \ own)
    /\ canApplyConstraints' = FALSE
    /\ job' = [job EXCEPT ![j] = [NoJob EXCEPT
                  !.kind = "apply", !.step = "token", !.ev = environmentVersion,
                  !.env = environmentVersion.env, !.version = environmentVersion.version,
                  !.edits = unappliedConstraints \cup {made'}]]
    /\ UNCHANGED <<server, environmentVersion, neighbours, lookups>>

(* While a message is being answered the input is disabled.                   *)
SendChatMessage(j) ==
    /\ MayStart("chat", j)
    /\ NewEdit
    /\ \A i \in Job : job[i].kind # "chat"
    /\ job' = [job EXCEPT ![j] = [NoJob EXCEPT
                  !.kind = "chat", !.step = "token", !.edits = {made'}]]
    /\ UNCHANGED <<server, screen, lookups>>

(* The buttons are enabled while there is a version to go to.                 *)
GoTo(j, kind, target) ==
    /\ MayClick(kind, j)
    /\ target # NoVersion
    /\ job' = [job EXCEPT ![j] = [NoJob EXCEPT
                  !.kind = kind, !.step = "layout", !.ev = target]]
    /\ UNCHANGED <<server, made, screen, lookups>>

GoToPreviousState(j) == GoTo(j, "undo", previousState)
GoToNextState(j) == GoTo(j, "redo", nextState)

ChangeEnvironment(j) ==
    /\ MayClick("switch", j)
    /\ \E e \in Env \ {environmentVersion.env} :
          job' = [job EXCEPT ![j] = [NoJob EXCEPT
                     !.kind = "switch", !.step = "refresh", !.env = e]]
    /\ UNCHANGED <<server, made, screen, lookups>>
-----------------------------------------------------------------------------
(* applyConstraints and sendChatMessage.                                      *)

(* The flag is read after the wait for the token, the version was before it.  *)
BugSendRun(j) ==
    /\ At(j, {"apply"}, "token")
    /\ job' = [job EXCEPT ![j].step = "sent", ![j].overwrite = willOverwriteState,
                          ![j].env = environmentVersion.env,
                          ![j].version = environmentVersion.version]
    /\ UNCHANGED <<server, made, screen, lookups>>

SendRun(j) ==
    /\ At(j, {"apply"}, "token")
    /\ job' = [job EXCEPT ![j].step = "sent", ![j].overwrite = willOverwriteState]
    /\ UNCHANGED <<server, made, screen, lookups>>

(* A message goes to the environment that is on screen after the wait.        *)
SendChat(j) ==
    /\ At(j, {"chat"}, "token")
    /\ job' = [job EXCEPT ![j].step = "sent", ![j].env = environmentVersion.env]
    /\ UNCHANGED <<server, made, screen, lookups>>

(* handle_message picks the current version, then waits for the assistant.    *)
ReadForChat(j) ==
    /\ At(j, {"chat"}, "sent")
    /\ job' = [job EXCEPT ![j].step = "query", ![j].version = current[job[j].env]]
    /\ UNCHANGED <<server, made, screen, lookups>>

Asked(j) == At(j, {"apply"}, "sent") \/ At(j, {"chat"}, "query")
Base(j) == RunBase(job[j].env, job[j].version, job[j].overwrite)

(* An answer may get lost after the commit.                                   *)
ServeRun(j) ==
    /\ Asked(j)
    /\ Base(j) # NoVersion
    /\ CommitRun(Base(j), job[j].edits, job[j].overwrite)
    /\ \/ job' = [job EXCEPT ![j].step = "answered",
                             ![j].answer = NewRow(Base(j), job[j].edits)]
       \/ "run" \in Faults /\ Goes(j, "error")
    /\ UNCHANGED <<made, screen, lookups>>

RefuseRun(j) ==
    /\ Asked(j)
    /\ Base(j) = NoVersion \/ "run" \in Faults
    /\ Goes(j, "error")
    /\ UNCHANGED <<server, made, screen, lookups>>

BugUnlock == canApplyConstraints' = TRUE /\ UNCHANGED unappliedConstraints

Unlock ==
    /\ unappliedConstraints' = {}
    /\ canApplyConstraints' = TRUE

ShowResult(j) ==
    /\ At(j, {"apply", "chat"}, "answered")
    /\ environmentVersion' = job[j].answer
    /\ previousState' = environmentVersion
    /\ nextState' = NoVersion
    /\ willOverwriteState' = FALSE
    /\ Unlock
    /\ Ends(j)
    /\ UNCHANGED <<server, made, lookups>>

ChatFails(j) ==
    /\ At(j, {"chat"}, "error")
    /\ Unlock
    /\ Ends(j)
    /\ UNCHANGED <<server, made, environmentVersion, neighbours, lookups>>

BugApplyFails(j) ==
    /\ At(j, {"apply"}, "error")
    /\ Ends(j)
    /\ UNCHANGED <<server, made, screen, lookups>>

ApplyFails(j) ==
    /\ At(j, {"apply"}, "error")
    /\ job' = [job EXCEPT ![j].step = "refresh", ![j].env = environmentVersion.env]
    /\ UNCHANGED <<server, made, screen, lookups>>

-----------------------------------------------------------------------------
(* refreshArchitecture.  The server answers the current version, whichever    *)
(* one it is asked for.                                                       *)
ServeGet(j) ==
    /\ At(j, {"apply", "switch"}, "refresh")
    /\ \/ /\ CurrentRow(job[j].env) # NoVersion
          /\ job' = [job EXCEPT ![j].step = "refreshed", ![j].answer = CurrentRow(job[j].env)]
       \/ /\ CurrentRow(job[j].env) = NoVersion \/ "refresh" \in Faults
          /\ Goes(j, "unreachable")
    /\ UNCHANGED <<server, made, screen, lookups>>

(* The neighbours keep the values they had until the lookup is done.          *)
BugNoLookup(j) ==
    /\ At(j, {"apply", "switch"}, "refreshed")
    /\ environmentVersion' = job[j].answer
    /\ IF job[j].kind = "apply" THEN Unlock ELSE UNCHANGED queue
    /\ Ends(j)
    /\ UNCHANGED <<server, made, neighbours, lookups>>

BugStaysLocked(j) ==
    /\ At(j, {"apply", "switch"}, "refreshed")
    /\ environmentVersion' = job[j].answer
    /\ lookups' = lookups \cup {LookupOf(job[j].answer)}
    /\ Ends(j)
    /\ UNCHANGED <<server, made, neighbours, queue>>

Refreshed(j) ==
    /\ At(j, {"apply", "switch"}, "refreshed")
    /\ environmentVersion' = job[j].answer
    /\ lookups' = lookups \cup {LookupOf(job[j].answer)}
    /\ IF job[j].kind = "apply" THEN Unlock ELSE UNCHANGED queue
    /\ Ends(j)
    /\ UNCHANGED <<server, made, neighbours>>

(* The handler of a failed apply fails with it, and the queue stays locked.   *)
RefreshFails(j) ==
    /\ At(j, {"apply", "switch"}, "unreachable")
    /\ Ends(j)
    /\ UNCHANGED <<server, made, screen, lookups>>

LookupNext(l) ==
    /\ l.step = "next"
    /\ lookups' = (lookups \ {l}) \cup
          {[l EXCEPT !.step = "prev", !.next = NextRow(l.of.env, l.of.version)]}
    /\ UNCHANGED <<server, made, screen, job>>

LookupPrev(l) ==
    /\ l.step = "prev"
    /\ lookups' = (lookups \ {l}) \cup
          {[l EXCEPT !.step = "done", !.prev = PrevRow(l.of.env, l.of.version)]}
    /\ UNCHANGED <<server, made, screen, job>>

LookupDone(l) ==
    /\ l.step = "done"
    /\ nextState' = l.next
    /\ previousState' = l.prev
    /\ willOverwriteState' = (l.next = NoVersion)
    /\ lookups' = lookups \ {l}
    /\ UNCHANGED <<server, made, environmentVersion, queue, job>>

LookupFails(l) ==
    /\ "look" \in Faults
    /\ l.step # "done"
    /\ lookups' = lookups \ {l}
    /\ UNCHANGED <<server, made, screen, job>>

-----------------------------------------------------------------------------
(* goToPreviousState and goToNextState: the version is shown first, then the  *)
(* server is told, then the one beyond it is looked up.                       *)
Moves == {"undo", "redo"}

BugOnlyShows(j) ==
    /\ At(j, Moves, "layout")
    /\ environmentVersion' = job[j].ev
    /\ IF job[j].kind = "undo"
       THEN /\ nextState' = environmentVersion
            /\ willOverwriteState' = TRUE
            /\ UNCHANGED previousState
       ELSE /\ previousState' = environmentVersion
            /\ UNCHANGED <<nextState, willOverwriteState>>
    /\ job' = [job EXCEPT ![j].step = "moved"]
    /\ UNCHANGED <<server, made, queue, lookups>>

Show(j) ==
    /\ At(j, Moves, "layout")
    /\ environmentVersion' = job[j].ev
    /\ IF job[j].kind = "undo"
       THEN /\ nextState' = environmentVersion
            /\ willOverwriteState' = TRUE
            /\ UNCHANGED previousState
       ELSE /\ previousState' = environmentVersion
            /\ UNCHANGED <<nextState, willOverwriteState>>
    /\ job' = [job EXCEPT ![j].step = "token", ![j].env = job[j].ev.env]
    /\ UNCHANGED <<server, made, queue, lookups>>

(* The field the function takes the version from, read anew for each call.    *)
BugGoal(j) == nextState

Goal(j) == IF job[j].kind = "undo" THEN previousState ELSE nextState

SendMove(j) ==
    /\ At(j, Moves, "token")
    /\ Goal(j) # NoVersion
    /\ job' = [job EXCEPT ![j].step = "sent", ![j].version = Goal(j).version]
    /\ UNCHANGED <<server, made, screen, lookups>>

(* The server takes any number, also that of a version it has deleted.        *)
ServeMove(j) ==
    /\ At(j, Moves, "sent")
    /\ current' = [current EXCEPT ![job[j].env] = job[j].version]
    /\ \/ Goes(j, "moved")
       \/ "move" \in Faults /\ Goes(j, "error")
    /\ UNCHANGED <<rows, made, screen, lookups>>

RefuseMove(j) ==
    /\ "move" \in Faults
    /\ At(j, Moves, "sent")
    /\ Goes(j, "error")
    /\ UNCHANGED <<server, made, screen, lookups>>

Moved(j) ==
    /\ At(j, Moves, "moved")
    /\ job' = [job EXCEPT ![j].step = "beyond", ![j].env = environmentVersion.env]
    /\ UNCHANGED <<server, made, screen, lookups>>

AskBeyond(j) ==
    /\ At(j, Moves, "beyond")
    /\ Goal(j) # NoVersion
    /\ job' = [job EXCEPT ![j].step = "asked", ![j].version = Goal(j).version]
    /\ UNCHANGED <<server, made, screen, lookups>>

ServeBeyond(j) ==
    /\ At(j, Moves, "asked")
    /\ \/ job' = [job EXCEPT ![j].step = "found", ![j].answer =
                     IF job[j].kind = "undo" THEN PrevRow(job[j].env, job[j].version)
                     ELSE NextRow(job[j].env, job[j].version)]
       \/ "look" \in Faults /\ Goes(j, "error")
    /\ UNCHANGED <<server, made, screen, lookups>>

BugFound(j) ==
    /\ At(j, Moves, "found")
    /\ IF job[j].kind = "undo"
       THEN /\ previousState' = job[j].answer
            /\ UNCHANGED <<nextState, willOverwriteState>>
       ELSE /\ nextState' = job[j].answer
            /\ willOverwriteState' = (job[j].answer = NoVersion)
            /\ UNCHANGED previousState
    /\ Ends(j)
    /\ UNCHANGED <<server, made, environmentVersion, queue, lookups>>

Found(j) ==
    /\ At(j, Moves, "found")
    /\ IF job[j].kind = "undo"
       THEN /\ previousState' = job[j].answer
            /\ UNCHANGED <<nextState, willOverwriteState>>
       ELSE /\ nextState' = job[j].answer
            /\ willOverwriteState' = (job[j].answer # NoVersion)
            /\ UNCHANGED previousState
    /\ Ends(j)
    /\ UNCHANGED <<server, made, environmentVersion, queue, lookups>>

GoToFails(j) ==
    /\ \/ At(j, Moves, "error")
       \/ job[j].kind \in Moves /\ job[j].step \in {"token", "beyond"} /\ Goal(j) = NoVersion
    /\ IF job[j].kind = "undo"
       THEN previousState' = NoVersion /\ UNCHANGED nextState
       ELSE nextState' = NoVersion /\ UNCHANGED previousState
    /\ Ends(j)
    /\ UNCHANGED <<server, made, environmentVersion, willOverwriteState, queue, lookups>>

-----------------------------------------------------------------------------
(* Another user of the architecture, whose client is up to date.              *)
OtherEdit(e) ==
    /\ "other" \in Ops
    /\ CurrentRow(e) # NoVersion
    /\ NewEdit
    /\ CommitRun(CurrentRow(e), {made'}, FALSE)
    /\ UNCHANGED <<screen, job, lookups>>

Click(j) ==
    \/ Apply(j) \/ SendChatMessage(j) \/ ChangeEnvironment(j)
    \/ GoToPreviousState(j) \/ GoToNextState(j)

Continue(j) ==
    \/ SendRun(j) \/ SendChat(j) \/ ReadForChat(j) \/ ServeRun(j) \/ RefuseRun(j)
    \/ ShowResult(j) \/ ChatFails(j) \/ ApplyFails(j)
    \/ ServeGet(j) \/ Refreshed(j) \/ RefreshFails(j)
    \/ Show(j) \/ SendMove(j) \/ ServeMove(j) \/ RefuseMove(j)
    \/ Moved(j) \/ AskBeyond(j) \/ ServeBeyond(j) \/ Found(j) \/ GoToFails(j)

Detached(l) == LookupNext(l) \/ LookupPrev(l) \/ LookupDone(l) \/ LookupFails(l)

Quiet == lookups = {} /\ \A j \in Job : ~Running(j)

(* The page may be left alone for good.                                       *)
Rest == Quiet /\ UNCHANGED vars

Next ==
    \/ \E j \in Job : Click(j) \/ Continue(j)
    \/ \E l \in lookups : Detached(l)
    \/ \E e \in Env : OtherEdit(e)
    \/ Rest

Spec == Init /\ [][Next]_vars

(* A call comes to an end, if only by its timeout, and a promise that was     *)
(* resolved gets its turn.                                                    *)
FairSpec == Spec /\ \A j \in Job : WF_vars(Continue(j))

-----------------------------------------------------------------------------
(* Properties.                                                                *)

(* The types of the variables.                                                *)
TypeOK ==
    /\ rows \subseteq Version
    /\ current \in [Env -> Number]
    /\ made \in Number
    /\ environmentVersion \in Version
    /\ {previousState, nextState} \subseteq OptVersion
    /\ {willOverwriteState, canApplyConstraints} \subseteq BOOLEAN
    /\ unappliedConstraints \subseteq Edit
    /\ job \in [Job -> JobState]
    /\ lookups \subseteq Lookup

(* With nothing running, the version on screen is the one the server keeps as *)
(* the current one of its environment: whatever is applied, undone, redone or *)
(* switched to (applyConstraints, goToPreviousState, goToNextState,           *)
(* refreshArchitecture).                                                      *)
ScreenIsCurrent ==
    (\A j \in Job : ~Running(j)) => environmentVersion = CurrentRow(environmentVersion.env)

(* Undo and redo lead to a version of the environment on screen               *)
(* (goToPreviousState, goToNextState, changeEnvironment).                     *)
UndoStaysInEnvironment ==
    \A j \in Job : At(j, Moves, "layout") => job[j].ev.env = environmentVersion.env

(* An apply the server accepted built on the version that was on screen when  *)
(* the user made the change, whatever was shown since: its result is that     *)
(* version with the edits sent, in the same environment (applyConstraints).   *)
AppliesToScreen ==
    \A j \in Job : At(j, {"apply"}, "answered") =>
        /\ job[j].answer.env = job[j].ev.env
        /\ job[j].answer.edits = job[j].ev.edits \cup job[j].edits

(* An apply or a chat message is accepted on the current version only, so     *)
(* nothing that the user has not seen is replaced (applyConstraints, do_run). *)
AppliesToCurrent ==
    [][\A j \in Job : ServeRun(j) => Base(j) = CurrentRow(job[j].env)]_vars

(* Undo of an edit leads back to the version it was made on: what an undo     *)
(* left behind is gone once an edit replaces it, whatever was undone and      *)
(* redone before (willOverwriteState, do_run, get_previous_state).            *)
UndoComesBack ==
    [][\A j \in Job, r \in rows :
          At(j, {"apply"}, "sent") /\ ServeRun(j) /\ Base(j) = r =>
              PrevRow(r.env, current[r.env])' = r]_vars

(* A version the page holds never comes to mean another one: as long as there *)
(* is a row with its number it is that version, whatever was undone and       *)
(* overwritten since (do_run takes the number after the latest one).          *)
HeldVersions ==
    \A v \in {environmentVersion, previousState, nextState} \ {NoVersion}, r \in rows :
        r.env = v.env /\ r.version = v.version => r = v

(* No edit is part of two runs: one that was sent is not sent again with the  *)
(* next, whichever calls fail in between (unappliedConstraints).              *)
AppliedOnce == \A r, s \in rows : r # s => r.adds \cap s.adds = {}

(* The editor does not stay covered (applyConstraints).                       *)
Unlocks == ~canApplyConstraints ~> canApplyConstraints
=============================================================================
