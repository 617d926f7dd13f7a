----------------------------- MODULE EditorSession -----------------------------
(***************************************************************************)
(* The plan view at work: the dock, the editor panel that appears and goes *)
(* with it, and the compilations it sends to the development server.  App  *)
(* is the environment that opens the plan view for viewing or editing and  *)
(* leaves it (module Visualizer has its handlers).                         *)
(***************************************************************************)
EXTENDS EditorPanel, DockLayout

CONSTANTS
    Requests,    \* compilations in flight: a bound
    Good,        \* the revisions that compile
    Failure,     \* the server's answer that is no artifact
    MaxUser      \* bound: actions of the user

\* What the server keeps of a request.
RequestStates ==
    [source : Texts, phase : {"spawned", "read", "exited", "answered"},
     text : Texts \cup {None}, answer : Texts \cup {None, Failure}]

\* null is one value, and no record.
ASSUME SessionAssumption ==
    /\ Good \subseteq Revs /\ MaxUser \in Nat
    /\ Unset = None
    /\ None \notin RequestStates

VARIABLES
    request, tempFile, outDir, shared,  \* the server
    live,        \* the text whose artifact the canvas shows, or None
    user         \* actions of the user so far

Api == INSTANCE CompileApi WITH
    Names <- Names,
    NameIn <- LAMBDA t : t.name,
    Compiles <- LAMBDA t : t.rev \in Good,
    Natural <- LAMBDA t : t.name = Default,
    Absent <- None

api == <<request, tempFile, outDir, shared>>
vars == <<editor, storage, editSourceCode, used, consent, dock, layouts,
          request, tempFile, outDir, shared, live, user>>

Init ==
    /\ EditorInit
    /\ DockInit
    /\ Api!ApiInit
    /\ live = None
    /\ user = 0

Shown(d) == d # None /\ "editor" \in d.panels

\* A step of the dock, which the editor panel follows.
DockStep(cleared, text) ==
    /\ IF Shown(dock') # Mounted \/ cleared \/ text # None
       THEN EditorFollows(Shown(dock'), cleared, text)
       ELSE UNCHANGED <<editor, editSourceCode>>
    /\ UNCHANGED <<storage, used, consent, live>>
    /\ UNCHANGED api

UserActs == user < MaxUser /\ user' = user + 1

--------------------------------------------------------------------------------
(* App. *)

\* A plan is shown in view mode.
OpenPlan == UserActs /\ Ready("view") /\ DockStep(FALSE, editSourceCode)

\* handleCreateNew, handleEditCurrent and handleEditPlanByName: without or with
\* a text to take over.
OpenEditor(text) ==
    /\ UserActs
    /\ \/ Ready("edit")
       \/ ChangeMode("edit")
       \/ Docked /\ dock.initializedMode = "edit" /\ UNCHANGED dockVars
    /\ DockStep(FALSE, text)

\* handleGoHome forgets the text to take over, the other ways out do not.
LeavePlanView ==
    /\ UserActs
    /\ Unmount
    /\ \E text \in {None, editSourceCode} :
          /\ editor' = None
          /\ editSourceCode' = text
    /\ UNCHANGED <<storage, used, consent, live>>
    /\ UNCHANGED api

DockActs ==
    \/ LayoutChanged /\ UNCHANGED user /\ DockStep(FALSE, editSourceCode)
    \/ /\ UserActs
       /\ \E p \in Panels : AddPanel(p) \/ ClosePanel(p)
       /\ DockStep(FALSE, editSourceCode)
    \/ UserActs /\ ResetLayout /\ DockStep(TRUE, editSourceCode)

EditorActs ==
    /\ \/ EditorInput /\ UserActs
       \/ Autosave /\ UNCHANGED user
    /\ UNCHANGED <<dock, layouts, live>>
    /\ UNCHANGED api

--------------------------------------------------------------------------------
(* handleCompile.  The panel sends the text on its screen and is busy until *)
(* the answer; a panel that has been closed is no longer there to be busy,  *)
(* but its answer is still shown.                                           *)

HandleCompile(r) ==
    /\ UserActs
    /\ NoModal
    /\ editor.compiling = None
    /\ Api!Post(r, editor.code)
    /\ editor' = [editor EXCEPT !.compiling = r]
    /\ UNCHANGED <<storage, editSourceCode, used, consent, dock, layouts, live>>

\* Mutant: the busy state ends on success only.
CompileAnsweredWell(r) ==
    /\ Api!Taken(r)
    /\ live' = IF request[r].answer = Failure THEN live ELSE request[r].answer
    /\ editor' = IF Mounted /\ editor.compiling = r /\ request[r].answer # Failure
                 THEN [editor EXCEPT !.compiling = None] ELSE editor
    /\ UNCHANGED <<storage, editSourceCode, used, consent, dock, layouts, user>>

CompileAnswered(r) ==
    /\ Api!Taken(r)
    /\ live' = IF request[r].answer = Failure THEN live ELSE request[r].answer
    /\ editor' = IF Mounted /\ editor.compiling = r
                 THEN [editor EXCEPT !.compiling = None] ELSE editor
    /\ UNCHANGED <<storage, editSourceCode, used, consent, dock, layouts, user>>

ServerActs ==
    /\ \E r \in Requests : Api!ApiStep(r)
    /\ UNCHANGED <<editor, storage, editSourceCode, used, consent, dock, layouts, live, user>>

Next ==
    \/ OpenPlan
    \/ \E text \in {None, ViewedPlan} : OpenEditor(text)
    \/ LeavePlanView
    \/ DockActs
    \/ EditorActs
    \/ \E r \in Requests : HandleCompile(r) \/ CompileAnswered(r)
    \/ ServerActs

\* The server's processes end and the browser delivers their answers.
Spec == Init /\ [][Next]_vars
FairSpec ==
    /\ Spec
    /\ WF_vars(ServerActs)
    /\ WF_vars(\E r \in Requests : CompileAnswered(r))

--------------------------------------------------------------------------------

CompileOwn == Api!CompileOwn

\* An editor that says "Compiling..." gets out of it, whatever other requests do
\* to its temporary file.
CompileEnds ==
    [](Mounted /\ editor.compiling # None => <>(~Mounted \/ editor.compiling = None))

=============================================================================
