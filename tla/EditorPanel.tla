------------------------------ MODULE EditorPanel ------------------------------
(***************************************************************************)
(* The editor panel: the text on the screen, the saved plans and the       *)
(* autosave, over the browser's local storage, which outlives the panel.   *)
(* The panel is unmounted whenever its dock closes and starts again from   *)
(* the storage.  A write to the storage that fails is swallowed; one key   *)
(* can be refused (a quota) and another one written.                       *)
(*                                                                         *)
(* A text is the name of the plan it defines (the default plan's, or that  *)
(* of a plan that was being viewed) and a revision; typing changes the     *)
(* revision or empties the text.  Links with a text in their hash are left *)
(* out.                                                                    *)
(***************************************************************************)
EXTENDS Naturals, FiniteSets, Functions

CONSTANTS
    SavedIds,    \* identifiers generateId can return: the bound on saved plans
    Kept,        \* those of the plans that earlier sessions have saved
    Revs,        \* revisions of a text the user can type
    Pristine,    \* the revision a text has before the user types
    Default,     \* the plan name in DEFAULT_PLAN
    Viewed,      \* the plan name in a text taken over from the viewer
    Unnamed,     \* the name a text without one compiles under: live_plan
    None         \* null

DefaultPlan == [name |-> Default, rev |-> Pristine]
ViewedPlan == [name |-> Viewed, rev |-> Pristine]
Empty == [name |-> Unnamed, rev |-> None]

Names == {Default, Viewed, Unnamed}
Texts == [name : {Default, Viewed}, rev : Revs] \cup {Empty}

ASSUME EditorAssumption ==
    /\ Pristine \in Revs /\ None \notin Revs
    /\ None \notin SavedIds /\ Kept \subseteq SavedIds
    /\ None \notin [name : Names, rev : Revs \cup {None}]

VARIABLES
    editor,          \* the mounted panel, or None
    storage,         \* localStorage: editorCode, savedPlans' plans and currentId
    editSourceCode,  \* the store's field: a text to take over, or None
    used,            \* identifiers generateId has returned
    consent          \* history: saved plans whose deletion was asked for and confirmed

editorVars == <<editor, storage, editSourceCode, used, consent>>

Mounted == editor # None

\* A session begins with the plans that earlier ones have saved, one of them selected.
EditorInit ==
    /\ editor = None
    /\ \E id \in IF Kept = {} THEN {None} ELSE Kept :
          storage = [editorCode |-> None, plans |-> [i \in Kept |-> DefaultPlan],
                     currentId |-> id]
    /\ used = Kept
    /\ editSourceCode = None
    /\ consent = {}

--------------------------------------------------------------------------------
(* Mounting.  The text and the selected plan come from two different keys  *)
(* of the storage, and an empty text counts as none.  The autosave effect  *)
(* starts a timer on mount and again whenever the text or the selected     *)
(* plan changes.  lost, takenOver and touched are history: the keys whose  *)
(* last write was swallowed, whether a text has been taken over since a    *)
(* plan was last selected, and the saved plans that the user has typed     *)
(* into, or that this panel has started with another text for.             *)

LoadedCode(st) == IF st.editorCode \in {None, Empty} THEN DefaultPlan ELSE st.editorCode

Start(st) ==
    [code |-> LoadedCode(st), plans |-> st.plans, currentId |-> st.currentId,
     currentPlanId |-> st.currentId, timer |-> TRUE, modal |-> None,
     compiling |-> None, lost |-> {}, takenOver |-> FALSE,
     touched |-> {id \in DOMAIN st.plans : id = st.currentId /\ st.plans[id] # LoadedCode(st)}]

\* Mutant: the effect depends on the selected plan only.
EditedOnSelect(e, code, id) ==
    [e EXCEPT !.code = code, !.currentPlanId = id,
              !.timer = @ \/ id # e.currentPlanId]

\* The panel after a handler has set the text and the selected plan.
Edited(e, code, id) ==
    [e EXCEPT !.code = code, !.currentPlanId = id,
              !.timer = @ \/ code # e.code \/ id # e.currentPlanId]

\* Mutant: the saved plan stays selected.
TakeOverSelected(e, text) ==
    IF text = None THEN e
    ELSE [Edited(e, text, e.currentPlanId) EXCEPT !.takenOver = TRUE]

\* The effect that takes a viewed plan over; the stored currentId stays.
TakeOver(e, text) ==
    IF text = None THEN e
    ELSE [Edited(e, text, None) EXCEPT !.takenOver = TRUE]

\* A handler that selects a plan, or none, for the list of saved plans as well.
Selected(e, code, id) ==
    [Edited(e, code, id) EXCEPT !.currentId = id, !.takenOver = FALSE]

\* The panel follows its dock: it appears (again, if the dock has been cleared),
\* goes, or takes a text over.
EditorFollows(shown, cleared, text) ==
    IF shown
    THEN /\ editor' = TakeOver(IF Mounted /\ ~cleared THEN editor ELSE Start(storage), text)
         /\ editSourceCode' = None
    ELSE /\ editor' = None
         /\ editSourceCode' = text

--------------------------------------------------------------------------------
(* Preferences: the two keys.                                              *)

\* setEditorCode, and removeEditorCode for None: a write is done, or it fails and
\* nobody is told.
StoreCode(st, code, done) == IF done THEN [st EXCEPT !.editorCode = code] ELSE st

\* prefs.setSavedPlans of the panel's list.
StorePlans(st, e, done) ==
    IF done THEN [st EXCEPT !.plans = e.plans, !.currentId = e.currentId] ELSE st

Lose(e, key, done) ==
    [e EXCEPT !.lost = IF done THEN @ \ {key} ELSE @ \cup {key}]

SaveCode(e, code) ==
    \E done \in BOOLEAN :
        /\ storage' = StoreCode(storage, code, done)
        /\ editor' = Lose(e, "code", done)

SavePlans(e) ==
    \E done \in BOOLEAN :
        /\ storage' = StorePlans(storage, e, done)
        /\ editor' = Lose(e, "plans", done)

SaveBoth(e, code) ==
    \E done, donePlans \in BOOLEAN :
        /\ storage' = StorePlans(StoreCode(storage, code, done), e, donePlans)
        /\ editor' = Lose(Lose(e, "code", done), "plans", donePlans)

--------------------------------------------------------------------------------

NoModal == Mounted /\ editor.modal = None

\* What the user can make of the text on the screen.
Typed(code) ==
    {Empty} \cup [name : {IF code = Empty THEN Default ELSE code.name}, rev : Revs]

Type(text) ==
    /\ NoModal
    /\ text \in Typed(editor.code) \ {editor.code}
    /\ editor' = [Edited(editor, text, editor.currentPlanId) EXCEPT
                     !.touched = @ \cup ({editor.currentPlanId} \ {None})]
    /\ UNCHANGED <<storage, editSourceCode, used, consent>>

\* The timer fires: the text is stored, and stored again as the selected plan.
Autosave ==
    /\ Mounted
    /\ editor.timer
    /\ LET id == editor.currentPlanId
           plans == [i \in DOMAIN editor.plans |->
                        IF i = id THEN editor.code ELSE editor.plans[i]]
           fired == [editor EXCEPT !.timer = FALSE]
       IN  IF id = None THEN SaveCode(fired, editor.code)
           ELSE SaveBoth([fired EXCEPT !.plans = plans], editor.code)
    /\ UNCHANGED <<editSourceCode, used, consent>>

Reset ==
    /\ NoModal
    /\ SaveBoth(Selected(editor, DefaultPlan, None), None)
    /\ UNCHANGED <<editSourceCode, used, consent>>

OpenModal(type, id) ==
    /\ editor' = [editor EXCEPT !.modal = [type |-> type, plan |-> id]]
    /\ UNCHANGED <<storage, editSourceCode, used, consent>>

HandleSaveAs == NoModal /\ OpenModal("saveAs", None)

\* Mutant: the new plan replaces the list instead of being added to it.
ConfirmSaveAsAlone ==
    /\ Mounted /\ editor.modal # None /\ editor.modal.type = "saveAs"
    /\ \E id \in SavedIds \ used :
          /\ SavePlans([Selected(editor, editor.code, id) EXCEPT
                           !.modal = None, !.plans = [i \in {id} |-> editor.code]])
          /\ used' = used \cup {id}
    /\ UNCHANGED <<editSourceCode, consent>>

\* A new identifier, the text on the screen, and the plan selected.
ConfirmSaveAs ==
    /\ Mounted /\ editor.modal # None /\ editor.modal.type = "saveAs"
    /\ \E id \in SavedIds \ used :
          LET plans == [i \in DOMAIN editor.plans \cup {id} |->
                           IF i = id THEN editor.code ELSE editor.plans[i]]
          IN  /\ SavePlans([Selected(editor, editor.code, id) EXCEPT
                               !.modal = None, !.plans = plans])
              /\ used' = used \cup {id}
    /\ UNCHANGED <<editSourceCode, consent>>

SelectNew ==
    /\ NoModal
    /\ SavePlans(Selected(editor, DefaultPlan, None))
    /\ UNCHANGED <<editSourceCode, used, consent>>

SelectPlan(id) ==
    /\ NoModal
    /\ id \in DOMAIN editor.plans
    /\ SavePlans(Selected(editor, editor.plans[id], id))
    /\ UNCHANGED <<editSourceCode, used, consent>>

\* Delete and Rename ask about the selected plan and act on the one selected
\* when the answer comes; without one the dialog stays open.
AskAbout(type) ==
    /\ NoModal
    /\ editor.currentPlanId \in DOMAIN editor.plans
    /\ OpenModal(type, editor.currentPlanId)

ConfirmDelete ==
    /\ Mounted /\ editor.modal # None /\ editor.modal.type = "delete"
    /\ editor.currentPlanId # None
    /\ LET plans == RestrictDomain(editor.plans, LAMBDA i : i # editor.currentPlanId)
       IN  SavePlans([Selected(editor, editor.code, None) EXCEPT
                         !.modal = None, !.plans = plans])
    /\ consent' = consent \cup {editor.modal.plan}
    /\ UNCHANGED <<editSourceCode, used>>

\* Names of saved plans are only shown: the dialog closes.
ConfirmRename ==
    /\ Mounted /\ editor.modal # None /\ editor.modal.type = "rename"
    /\ editor.currentPlanId # None
    /\ SavePlans([editor EXCEPT !.modal = None])
    /\ UNCHANGED <<editSourceCode, used, consent>>

CancelModal ==
    /\ Mounted /\ editor.modal # None
    /\ editor' = [editor EXCEPT !.modal = None]
    /\ UNCHANGED <<storage, editSourceCode, used, consent>>

EditorInput ==
    \/ \E text \in Texts : Type(text)
    \/ Reset
    \/ HandleSaveAs
    \/ ConfirmSaveAs
    \/ SelectNew
    \/ \E id \in SavedIds : SelectPlan(id)
    \/ AskAbout("delete") \/ AskAbout("rename")
    \/ ConfirmDelete
    \/ ConfirmRename
    \/ CancelModal

--------------------------------------------------------------------------------
(* Properties. *)

\* A panel opened again from the storage (Start) shows what this one shows.  The
\* saved plans and the selected one: at any time, unless the storage refused the
\* last write of the list, or a text has been taken over, which leaves the old
\* plan selected in the storage.  The text: once the timer has fired, unless the
\* storage refused it, or it is empty, which the storage gives back as the default
\* plan.  And then the text is also the selected plan's, in the list and so in the
\* storage, whatever was refused before.
QuietInStep ==
    Mounted =>
        LET again == Start(storage)
        IN  /\ editor.currentPlanId \in DOMAIN editor.plans \cup {None}
            /\ "plans" \notin editor.lost =>
                  /\ again.plans = editor.plans
                  /\ ~editor.takenOver => again.currentPlanId = editor.currentPlanId
            /\ ~editor.timer =>
                  /\ editor.currentPlanId # None =>
                        editor.plans[editor.currentPlanId] = editor.code
                  /\ "code" \notin editor.lost /\ editor.code # Empty =>
                        again.code = editor.code

\* A saved plan disappears from the storage only after its own deletion has been
\* asked for and confirmed, also when a viewed plan was taken over in between and
\* when the storage refused the write and a later one brings the deletion.
DeletedByConsent ==
    [][\A id \in SavedIds :
          id \in DOMAIN storage.plans /\ id \notin DOMAIN storage'.plans =>
              id \in consent']_editorVars

\* The text of a saved plan in the storage is replaced only after the user has typed
\* into that plan: selecting, saving, deleting and resetting do not, nor does a viewed
\* plan taken over ("not a saved plan"), whenever the timer fires and whatever the
\* storage refused.  The exception is a panel that has started with a text that is not
\* the selected plan's, as QuietInStep's exceptions let it: its autosave stores the one
\* over the other.
TextByTyping ==
    [][\A id \in DOMAIN storage.plans \cap DOMAIN storage'.plans :
          storage.plans[id] # storage'.plans[id] => id \in editor.touched]_editorVars

=============================================================================
