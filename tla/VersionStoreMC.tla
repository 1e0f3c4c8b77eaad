---------------------------- MODULE VersionStoreMC ----------------------------
(* Instances of VersionStore for TLC.                                         *)
EXTENDS VersionStore, TLC

\* Requests differ only in the edit they make and the hash they draw.
Symmetry == Permutations(Request)

BothWith(kinds) ==
  [e \in Env |-> IF e = PROD_ENV_ID THEN kinds \cup {Promote} ELSE kinds]

\* Every request there is
EveryKind == BothWith(AllKinds \ {Promote})

\* What an editor sends: it moves only to versions the server told it of
EditorKinds == BothWith({Run, Overwrite, Undo, Redo, Iac})

\* The same, but prod is never moved back
ProdForward == [EditorKinds EXCEPT ![PROD_ENV_ID] = @ \ {Undo, Redo}]

\* Every request there is for the base; in prod nothing is moved back or overwritten
ForwardProd == [EveryKind EXCEPT ![PROD_ENV_ID] = {Run, Chat, Iac, Promote}]

===============================================================================
