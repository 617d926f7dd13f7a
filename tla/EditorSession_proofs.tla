------------------------- MODULE EditorSession_proofs -------------------------
(***************************************************************************)
(* Proofs about EditorSession, for any number of saved plans, revisions,   *)
(* panels and requests, and for sessions of any length.                    *)
(***************************************************************************)
EXTENDS EditorSession, TLAPS

-----------------------------------------------------------------------------
(***************************************************************************)
(* The dock: the mode its listener refers to is the mode on the screen,    *)
(* and a dock for viewing has no editor.                                   *)
(***************************************************************************)
DockStates == [panels : SUBSET Panels, initializedMode : Modes, modeRef : Modes,
               changed : BOOLEAN]
Layouts == [mode : Modes, panels : SUBSET Panels]

DockInv ==
    /\ layouts \in [Modes -> Layouts \cup {Unset}]
    /\ LayoutOfMode
    /\ Docked =>
          /\ dock \in DockStates
          /\ dock.modeRef = dock.initializedMode
          /\ dock.initializedMode = "view" => "editor" \notin dock.panels

\* What a mode starts with fits the mode.
LEMMA DefaultFits ==
    ASSUME NEW mode \in Modes
    PROVE  /\ DefaultPanels(mode) \in SUBSET Panels
           /\ mode = "view" => "editor" \notin DefaultPanels(mode)
BY DEF DefaultPanels, Modes

\* So does what is restored from a layout that fits.
LEMMA RestoredFits ==
    ASSUME NEW mode \in Modes, NEW stored \in Layouts \cup {Unset},
           stored # Unset => (mode = "view" => "editor" \notin stored.panels),
           NEW panels \in RestoredPanels(stored, mode)
    PROVE  /\ panels \in SUBSET Panels
           /\ mode = "view" => "editor" \notin panels
BY DefaultFits DEF RestoredPanels, Layouts

\* The layout on the screen fits the mode it is stored for.
LEMMA ToJSONFits ==
    ASSUME DockInv, Docked
    PROVE  /\ ToJSON \in Layouts
           /\ ToJSON.mode = dock.initializedMode
           /\ ToJSON.panels = dock.panels
BY DEF DockInv, ToJSON, Layouts, DockStates

LEMMA ReadyDock ==
    ASSUME DockInv, NEW mode \in Modes, Ready(mode)
    PROVE  DockInv'
<1>1. PICK panels \in RestoredPanels(layouts[mode], mode) :
         dock' = [panels |-> panels, initializedMode |-> mode, modeRef |-> mode,
                  changed |-> FALSE]
  BY DEF Ready
<1>2. panels \in SUBSET Panels /\ (mode = "view" => "editor" \notin panels)
  BY RestoredFits DEF DockInv, LayoutOfMode
<1>3. layouts' = layouts
  BY DEF Ready
<1> QED BY <1>1, <1>2, <1>3 DEF DockInv, LayoutOfMode, DockStates, Docked

\* Storing a fitting layout for its mode keeps the layouts fitting, done or not.
LEMMA SaveFits ==
    ASSUME DockInv, NEW m \in Modes, NEW l \in Layouts \cup {Unset},
           l # Unset => l.mode = m /\ (m = "view" => "editor" \notin l.panels),
           NEW saved \in Stores(m, l)
    PROVE  /\ saved \in [Modes -> Layouts \cup {Unset}]
           /\ \A k \in Modes : saved[k] # Unset =>
                 /\ saved[k].mode = k
                 /\ k = "view" => "editor" \notin saved[k].panels
BY DEF DockInv, LayoutOfMode, Stores

LEMMA ChangeModeDock ==
    ASSUME DockInv, NEW mode \in Modes, ChangeMode(mode)
    PROVE  DockInv'
<1>0. PICK saved \in Stores(dock.initializedMode, ToJSON) :
         /\ layouts' = saved
         /\ \E panels \in RestoredPanels(saved[mode], mode) :
               dock' = [panels |-> panels, initializedMode |-> mode, modeRef |-> mode,
                        changed |-> TRUE]
  BY DEF ChangeMode
<1>1. dock \in DockStates /\ Docked
  BY DEF ChangeMode, DockInv
<1>2. dock.initializedMode \in Modes
  BY <1>1 DEF DockStates
<1>3. ToJSON \in Layouts \cup {Unset} /\ ToJSON.mode = dock.initializedMode
      /\ ToJSON.panels = dock.panels
  BY <1>1, ToJSONFits
<1>4. /\ saved \in [Modes -> Layouts \cup {Unset}]
      /\ \A k \in Modes : saved[k] # Unset =>
            saved[k].mode = k /\ (k = "view" => "editor" \notin saved[k].panels)
  BY <1>1, <1>2, <1>3, SaveFits DEF DockInv
<1>5. PICK panels \in RestoredPanels(saved[mode], mode) :
         dock' = [panels |-> panels, initializedMode |-> mode, modeRef |-> mode,
                  changed |-> TRUE]
  BY <1>0
<1>6. layouts' = saved
  BY <1>0
<1>7. panels \in SUBSET Panels /\ (mode = "view" => "editor" \notin panels)
  BY <1>4, RestoredFits
<1> QED BY <1>4, <1>5, <1>6, <1>7 DEF DockInv, LayoutOfMode, DockStates, Docked

LEMMA LayoutChangedDock ==
    ASSUME DockInv, LayoutChanged
    PROVE  DockInv'
<1>1. dock \in DockStates /\ Docked /\ dock.modeRef = dock.initializedMode
  BY DEF LayoutChanged, DockInv
<1>2. dock.modeRef \in Modes
  BY <1>1 DEF DockStates
<1>3. ToJSON \in Layouts \cup {Unset} /\ ToJSON.mode = dock.initializedMode
      /\ ToJSON.panels = dock.panels
  BY <1>1, ToJSONFits
<1>4. /\ layouts' \in [Modes -> Layouts \cup {Unset}]
      /\ LayoutOfMode'
  BY <1>1, <1>2, <1>3, SaveFits DEF DockInv, LayoutChanged, LayoutOfMode
<1>5. dock' \in DockStates /\ dock'.modeRef = dock.modeRef
      /\ dock'.initializedMode = dock.initializedMode /\ dock'.panels = dock.panels
  BY <1>1 DEF LayoutChanged, DockStates
<1> QED BY <1>1, <1>4, <1>5 DEF DockInv

LEMMA AddPanelDock ==
    ASSUME DockInv, NEW p \in Panels, AddPanel(p)
    PROVE  DockInv'
<1> DEFINE panels == dock.panels \cup {p}
           l == [ToJSON EXCEPT !.panels = panels]
<1>1. /\ dock \in DockStates /\ Docked /\ dock.modeRef = dock.initializedMode
      /\ dock.initializedMode = "view" => "editor" \notin dock.panels
      /\ p = "editor" => dock.modeRef = "edit"
      /\ dock' = [dock EXCEPT !.panels = panels, !.changed = TRUE]
      /\ layouts' \in Stores(dock.modeRef, l)
  BY DEF AddPanel, DockInv
<1>2. dock.modeRef \in Modes /\ panels \in SUBSET Panels
  BY <1>1 DEF DockStates
<1>3. dock.modeRef = "view" => "editor" \notin panels
  BY <1>1
<1>4. l \in Layouts /\ l.mode = dock.modeRef /\ l.panels = panels
  <2>1. ToJSON \in Layouts /\ ToJSON.mode = dock.modeRef
    BY <1>1, ToJSONFits
  <2> QED BY <1>2, <2>1 DEF Layouts
<1>5. dock' \in DockStates /\ dock'.modeRef = dock.modeRef
      /\ dock'.initializedMode = dock.initializedMode /\ dock'.panels = panels
  BY <1>1, <1>2 DEF DockStates
<1> HIDE DEF l, panels
<1>6. /\ layouts' \in [Modes -> Layouts \cup {Unset}]
      /\ LayoutOfMode'
  BY <1>1, <1>2, <1>3, <1>4, SaveFits DEF DockInv, LayoutOfMode
<1> QED BY <1>1, <1>3, <1>5, <1>6 DEF DockInv

LEMMA ClosePanelDock ==
    ASSUME DockInv, NEW p \in Panels, ClosePanel(p)
    PROVE  DockInv'
<1>1. dock \in DockStates /\ Docked /\ layouts' = layouts
      /\ dock' = [dock EXCEPT !.panels = @ \ {p}, !.changed = TRUE]
  BY DEF ClosePanel, DockInv
<1>2. dock' \in DockStates /\ dock'.modeRef = dock.modeRef
      /\ dock'.initializedMode = dock.initializedMode /\ dock'.panels = dock.panels \ {p}
  BY <1>1 DEF DockStates
<1> QED BY <1>1, <1>2 DEF DockInv, LayoutOfMode

LEMMA ResetLayoutDock ==
    ASSUME DockInv, ResetLayout
    PROVE  DockInv'
<1>1. /\ dock \in DockStates /\ Docked /\ dock.modeRef = dock.initializedMode
      /\ dock' = [dock EXCEPT !.panels = DefaultPanels(dock.modeRef), !.changed = TRUE]
      /\ layouts' \in Stores(dock.modeRef, Unset)
  BY DEF ResetLayout, DockInv
<1>2. dock.modeRef \in Modes
  BY <1>1 DEF DockStates
<1>3. /\ layouts' \in [Modes -> Layouts \cup {Unset}]
      /\ LayoutOfMode'
  BY <1>1, <1>2, SaveFits DEF DockInv, LayoutOfMode
<1>4. /\ DefaultPanels(dock.modeRef) \in SUBSET Panels
      /\ dock.modeRef = "view" => "editor" \notin DefaultPanels(dock.modeRef)
  BY <1>2, DefaultFits
<1>5. dock' \in DockStates /\ dock'.modeRef = dock.modeRef
      /\ dock'.initializedMode = dock.initializedMode
      /\ dock'.panels = DefaultPanels(dock.modeRef)
  BY <1>1, <1>4 DEF DockStates
<1> QED BY <1>1, <1>3, <1>4, <1>5 DEF DockInv

\* Every step of the session keeps the dock's invariant.
LEMMA NextDock == DockInv /\ [Next]_vars => DockInv'
<1> SUFFICES ASSUME DockInv, [Next]_vars PROVE DockInv'
  OBVIOUS
<1>1. CASE UNCHANGED dockVars
  BY <1>1 DEF dockVars, DockInv, LayoutOfMode, Docked
<1>2. CASE \E mode \in Modes : Ready(mode) \/ ChangeMode(mode)
  BY <1>2, ReadyDock, ChangeModeDock
<1>3. CASE Unmount
  BY <1>3 DEF Unmount, DockInv, LayoutOfMode, Docked
<1>4. CASE LayoutChanged \/ ResetLayout \/ \E p \in Panels : AddPanel(p) \/ ClosePanel(p)
  BY <1>4, LayoutChangedDock, ResetLayoutDock, AddPanelDock, ClosePanelDock
<1>5. CASE UNCHANGED vars
  BY <1>1, <1>5 DEF vars, dockVars
<1>6. CASE OpenPlan \/ (\E text \in {None, ViewedPlan} : OpenEditor(text)) \/ LeavePlanView
  BY <1>6, <1>1, <1>2, <1>3 DEF OpenPlan, OpenEditor, LeavePlanView, Modes
<1>7. CASE DockActs
  BY <1>7, <1>4 DEF DockActs
<1>8. CASE EditorActs \/ ServerActs \/ \E r \in Requests : HandleCompile(r) \/ CompileAnswered(r)
  BY <1>8, <1>1 DEF EditorActs, ServerActs, HandleCompile, CompileAnswered, dockVars
<1> QED BY <1>5, <1>6, <1>7, <1>8 DEF Next

\* A layout stored for viewing never brings an editor up (AppLayout's two effects
\* and its listener, in whatever order dockview reports changes).
THEOREM SessionLayoutOfMode == Spec => []LayoutOfMode
<1>1. Init => DockInv
  BY DEF Init, DockInit, DockInv, LayoutOfMode, Docked
<1>2. DockInv /\ [Next]_vars => DockInv'
  BY NextDock
<1>3. DockInv => LayoutOfMode
  BY DEF DockInv
<1> QED BY <1>1, <1>2, <1>3, PTL DEF Spec

-----------------------------------------------------------------------------
(***************************************************************************)
(* The editor panel.  Panel(e) is what a mounted panel keeps by itself;    *)
(* CodeFits and PlansFit tie it to the two keys of the storage st as far   *)
(* as their last writes were done, and TextsFit the plans' texts always.   *)
(***************************************************************************)
Ids == SavedIds \cup {None}
PlanLists == UNION {[S -> Texts] : S \in SUBSET SavedIds}
Modals == [type : {"saveAs", "delete", "rename"}, plan : Ids]

StorageStates == [editorCode : Texts \cup {None}, plans : PlanLists, currentId : Ids]
EditorStates ==
    [code : Texts, plans : PlanLists, currentId : Ids, currentPlanId : Ids,
     timer : BOOLEAN, modal : Modals \cup {None}, compiling : Requests \cup {None},
     lost : SUBSET {"code", "plans"}, takenOver : BOOLEAN, touched : SUBSET SavedIds]

Known(id, plans) == id \in DOMAIN plans \cup {None}

Stored(st) == st \in StorageStates /\ Known(st.currentId, st.plans)

\* A question about a plan is still about the selected one, or about none, and a
\* selected plan that the user has not typed into has the text on the screen.
Panel(e) ==
    /\ e \in EditorStates
    /\ Known(e.currentPlanId, e.plans) /\ Known(e.currentId, e.plans)
    /\ ~e.takenOver => e.currentId = e.currentPlanId
    /\ ~e.timer /\ e.currentPlanId # None => e.plans[e.currentPlanId] = e.code
    /\ e.modal # None /\ e.modal.type \in {"delete", "rename"}
          => e.currentPlanId \in {e.modal.plan, None}
    /\ e.currentPlanId \notin e.touched \cup {None} => e.plans[e.currentPlanId] = e.code

CodeFits(e, st) ==
    ~e.timer /\ "code" \notin e.lost /\ e.code # Empty => LoadedCode(st) = e.code

PlansFit(e, st) ==
    "plans" \notin e.lost => e.plans = st.plans /\ e.currentId = st.currentId

\* The plans whose text is another one in p than in q.
Retyped(q, p) == {id \in DOMAIN q \cap DOMAIN p : q[id] # p[id]}

TextsFit(e, st) == Retyped(st.plans, e.plans) \subseteq e.touched

Fits(e, st) == Panel(e) /\ CodeFits(e, st) /\ PlansFit(e, st) /\ TextsFit(e, st)

\* Plans are missing from p, of those in q, by consent only.
Missing(q, p) == DOMAIN q \ DOMAIN p

EditorInv ==
    /\ Stored(storage)
    /\ editSourceCode \in Texts \cup {None}
    /\ DOMAIN storage.plans \subseteq used
    /\ Mounted => /\ Fits(editor, storage)
                  /\ Missing(storage.plans, editor.plans) \subseteq consent
                  /\ DOMAIN editor.plans \subseteq used

\* What a step must show: the invariant, and that a plan leaves the storage by consent
\* and gets another text there by typing.
EditorKept ==
    /\ EditorInv'
    /\ Missing(storage.plans, storage'.plans) \subseteq consent'
    /\ Retyped(storage.plans, storage'.plans) \subseteq editor.touched

LEMMA TextFacts ==
    /\ None \notin Texts
    /\ DefaultPlan \in Texts /\ ViewedPlan \in Texts /\ DefaultPlan # Empty
    /\ \A st \in StorageStates : LoadedCode(st) \in Texts
<1>1. DefaultPlan \in Texts /\ ViewedPlan \in Texts
  BY EditorAssumption DEF Texts, DefaultPlan, ViewedPlan
<1>2. None \notin Texts
  BY EditorAssumption DEF Texts, Empty, Names
<1>3. DefaultPlan # Empty
  BY EditorAssumption DEF DefaultPlan, Empty
<1> QED BY <1>1, <1>2, <1>3 DEF LoadedCode, StorageStates

\* Lists of saved plans by their domain.
LEMMA PlanListFacts ==
    ASSUME NEW p
    PROVE  p \in PlanLists <=> DOMAIN p \in SUBSET SavedIds /\ p \in [DOMAIN p -> Texts]
BY DEF PlanLists

\* null is the identifier of no saved plan.
LEMMA NoneUnknown ==
    ASSUME NEW p \in PlanLists
    PROVE  None \notin DOMAIN p /\ DOMAIN p \subseteq Ids
BY PlanListFacts, EditorAssumption DEF Ids

LEMMA StartFits ==
    ASSUME NEW st, Stored(st)
    PROVE  Fits(Start(st), st) /\ Start(st).plans = st.plans
<1> DEFINE e == Start(st)
<1>0. st.plans \in PlanLists /\ DOMAIN st.plans \subseteq SavedIds
  BY PlanListFacts DEF Stored, StorageStates
<1>1. /\ e \in EditorStates /\ e.timer /\ e.modal = None /\ e.plans = st.plans
      /\ e.currentId = st.currentId /\ e.currentPlanId = st.currentId
      /\ e.code = LoadedCode(st)
      /\ e.touched = {id \in DOMAIN st.plans :
                        id = st.currentId /\ st.plans[id] # LoadedCode(st)}
  BY <1>0, TextFacts DEF Start, Stored, StorageStates, EditorStates
<1> HIDE DEF e
<1>2. TextsFit(e, st)
  BY <1>1 DEF TextsFit, Retyped
<1>3. Panel(e)
  BY <1>1 DEF Stored, Panel, Known
<1> QED BY <1>1, <1>2, <1>3 DEF Fits, CodeFits, PlansFit, e

\* Typing and taking over restart the timer where they change something.
LEMMA TypedFits ==
    ASSUME NEW e, NEW st, Fits(e, st), NEW code \in Texts
    PROVE  LET f == [Edited(e, code, e.currentPlanId) EXCEPT
                        !.touched = @ \cup ({e.currentPlanId} \ {None})]
           IN  Fits(f, st) /\ f.plans = e.plans
<1> DEFINE f == [Edited(e, code, e.currentPlanId) EXCEPT
                    !.touched = @ \cup ({e.currentPlanId} \ {None})]
<1>1. e \in EditorStates /\ e.currentPlanId \in Ids
  BY DEF EditorStates, Fits, Panel
<1>2. /\ f \in EditorStates
      /\ f.plans = e.plans /\ f.code = code /\ f.currentPlanId = e.currentPlanId
      /\ f.currentId = e.currentId /\ f.modal = e.modal
      /\ f.lost = e.lost /\ f.takenOver = e.takenOver
      /\ f.touched = e.touched \cup ({e.currentPlanId} \ {None})
      /\ ~f.timer => ~e.timer /\ code = e.code
  BY <1>1 DEF Edited, EditorStates, Ids
<1> HIDE DEF f
<1>3. Panel(f)
  BY <1>2 DEF Fits, Panel
<1>4. CodeFits(f, st) /\ PlansFit(f, st) /\ TextsFit(f, st)
  BY <1>2 DEF Fits, CodeFits, PlansFit, TextsFit
<1> QED BY <1>2, <1>3, <1>4 DEF Fits, f

LEMMA TakeOverFits ==
    ASSUME NEW e, NEW st, Fits(e, st), NEW text \in Texts \cup {None}
    PROVE  Fits(TakeOver(e, text), st) /\ TakeOver(e, text).plans = e.plans
<1>1. CASE text = None
  BY <1>1 DEF TakeOver
<1>2. CASE text # None
  <2> DEFINE f == [Edited(e, text, None) EXCEPT !.takenOver = TRUE]
  <2>1. e \in EditorStates /\ None \in Ids /\ text \in Texts
    BY <1>2 DEF Fits, Panel, Ids
  <2>2. /\ f \in EditorStates
        /\ f.plans = e.plans /\ f.code = text /\ f.currentPlanId = None
        /\ f.currentId = e.currentId /\ f.modal = e.modal
        /\ f.lost = e.lost /\ f.takenOver /\ f.touched = e.touched
        /\ ~f.timer => ~e.timer /\ text = e.code
    BY <2>1 DEF Edited, EditorStates
  <2>3. TakeOver(e, text) = f
    BY <1>2 DEF TakeOver
  <2> HIDE DEF f
  <2>4. Panel(f)
    BY <2>2 DEF Fits, Panel, Known
  <2>5. CodeFits(f, st) /\ PlansFit(f, st) /\ TextsFit(f, st)
    BY <2>2 DEF Fits, CodeFits, PlansFit, TextsFit
  <2> QED BY <2>2, <2>3, <2>4, <2>5 DEF Fits
<1> QED BY <1>1, <1>2

\* The panel follows its dock.
LEMMA DockStepEditor ==
    ASSUME EditorInv, NEW cleared \in BOOLEAN, NEW text \in Texts \cup {None},
           DockStep(cleared, text)
    PROVE  EditorKept
<1>1. UNCHANGED <<storage, consent, used>>
  BY DEF DockStep
<1>2. CASE UNCHANGED <<editor, editSourceCode>>
  BY <1>1, <1>2 DEF EditorKept, EditorInv, Mounted, Missing, Retyped
<1>3. CASE EditorFollows(Shown(dock'), cleared, text) /\ Shown(dock')
  <2> DEFINE e == IF Mounted /\ ~cleared THEN editor ELSE Start(storage)
  <2>1. /\ Fits(e, storage) /\ Missing(storage.plans, e.plans) \subseteq consent
        /\ DOMAIN e.plans \subseteq used
    BY StartFits DEF EditorInv, Missing
  <2> HIDE DEF e
  <2>2. Fits(TakeOver(e, text), storage) /\ TakeOver(e, text).plans = e.plans
    BY <2>1, TakeOverFits
  <2>3. editor' = TakeOver(e, text) /\ editSourceCode' = None
    BY <1>3 DEF EditorFollows, e
  <2> QED BY <1>1, <2>1, <2>2, <2>3 DEF EditorKept, EditorInv, Mounted, Missing, Retyped
<1>4. CASE EditorFollows(Shown(dock'), cleared, text) /\ ~Shown(dock')
  BY <1>1, <1>4 DEF EditorFollows, EditorKept, EditorInv, Mounted, Missing, Retyped
<1> QED BY <1>2, <1>3, <1>4 DEF DockStep

\* A write of the text, done or swallowed.
LEMMA StoreCodeFits ==
    ASSUME NEW e, NEW st, Panel(e), Stored(st), NEW done \in BOOLEAN,
           NEW code \in Texts \cup {None},
           code = e.code \/ (code = None /\ e.code = DefaultPlan)
    PROVE  LET f == Lose(e, "code", done)
               t == StoreCode(st, code, done)
           IN  /\ Panel(f) /\ Stored(t) /\ CodeFits(f, t)
               /\ PlansFit(e, st) => PlansFit(f, t)
               /\ f.plans = e.plans /\ f.currentId = e.currentId /\ f.touched = e.touched
               /\ t.plans = st.plans
<1> DEFINE f == Lose(e, "code", done)
           t == StoreCode(st, code, done)
<1>1. /\ f \in EditorStates /\ f.plans = e.plans /\ f.code = e.code
      /\ f.currentPlanId = e.currentPlanId /\ f.currentId = e.currentId
      /\ f.modal = e.modal /\ f.timer = e.timer /\ f.takenOver = e.takenOver
      /\ f.touched = e.touched
      /\ "plans" \in f.lost <=> "plans" \in e.lost
      /\ "code" \in f.lost <=> ~done
  BY DEF Lose, EditorStates, Panel
<1>2. /\ t \in StorageStates /\ t.plans = st.plans /\ t.currentId = st.currentId
      /\ done => t.editorCode = code
  BY DEF StoreCode, StorageStates, Stored
<1>3. done /\ e.code # Empty => LoadedCode(t) = e.code
  <2>1. e.code \in Texts
    BY DEF Panel, EditorStates
  <2> QED BY <1>2, <2>1, TextFacts DEF LoadedCode
<1> HIDE DEF f, t
<1>4. Panel(f)
  BY <1>1 DEF Panel
<1>5. Stored(t) /\ CodeFits(f, t) /\ (PlansFit(e, st) => PlansFit(f, t))
  BY <1>1, <1>2, <1>3 DEF Stored, CodeFits, PlansFit
<1> QED BY <1>1, <1>2, <1>4, <1>5 DEF f, t

\* A write of the list, done or swallowed.
LEMMA StorePlansFits ==
    ASSUME NEW e, NEW st, Panel(e), Stored(st), CodeFits(e, st), TextsFit(e, st),
           NEW done \in BOOLEAN
    PROVE  LET f == Lose(e, "plans", done)
               t == StorePlans(st, e, done)
           IN  /\ Fits(f, t) /\ Stored(t)
               /\ f.plans = e.plans
               /\ t.plans \in {st.plans, e.plans}
<1> DEFINE f == Lose(e, "plans", done)
           t == StorePlans(st, e, done)
<1>1. /\ f \in EditorStates /\ f.plans = e.plans /\ f.code = e.code
      /\ f.currentPlanId = e.currentPlanId /\ f.currentId = e.currentId
      /\ f.modal = e.modal /\ f.timer = e.timer /\ f.takenOver = e.takenOver
      /\ f.touched = e.touched
      /\ "code" \in f.lost <=> "code" \in e.lost
      /\ "plans" \in f.lost <=> ~done
  BY DEF Lose, EditorStates, Panel
<1>2. /\ t \in StorageStates /\ t.editorCode = st.editorCode
      /\ done => t.plans = e.plans /\ t.currentId = e.currentId
      /\ ~done => t = st
  BY DEF StorePlans, StorageStates, Stored, Panel, EditorStates
<1>3. LoadedCode(t) = LoadedCode(st)
  BY <1>2 DEF LoadedCode
<1> HIDE DEF f, t
<1>4. Panel(f)
  BY <1>1 DEF Panel
<1>5. CodeFits(f, t) /\ PlansFit(f, t)
  BY <1>1, <1>2, <1>3 DEF CodeFits, PlansFit
<1>6. Stored(t)
  BY <1>2 DEF Stored, Panel
<1>7. TextsFit(f, t)
  BY <1>1, <1>2 DEF TextsFit, Retyped
<1> QED BY <1>1, <1>2, <1>4, <1>5, <1>6, <1>7 DEF Fits, f, t

\* What storing a panel's list e takes: plans leave it by consent and get another text
\* by typing.
Storable(e) ==
    /\ Panel(e) /\ TextsFit(e, storage) /\ e.touched = editor.touched
    /\ Missing(storage.plans, e.plans) \subseteq consent'
    /\ used \subseteq used' /\ DOMAIN e.plans \subseteq used'
    /\ UNCHANGED editSourceCode

\* Storing the list, alone or after the text, keeps the session in step.
LEMMA SavePlansEditor ==
    ASSUME EditorInv, NEW e, Storable(e), CodeFits(e, storage), SavePlans(e)
    PROVE  EditorKept
<1>1. PICK done \in BOOLEAN : /\ storage' = StorePlans(storage, e, done)
                              /\ editor' = Lose(e, "plans", done)
  BY DEF SavePlans
<1>2. /\ Fits(editor', storage') /\ Stored(storage') /\ editor'.plans = e.plans
      /\ storage'.plans \in {storage.plans, e.plans}
  BY <1>1, StorePlansFits DEF EditorInv, Storable
<1> QED BY <1>2 DEF EditorKept, EditorInv, Missing, Retyped, TextsFit, Storable

LEMMA SaveBothEditor ==
    ASSUME EditorInv, NEW e, Storable(e), NEW code \in Texts \cup {None}, SaveBoth(e, code),
           code = e.code \/ (code = None /\ e.code = DefaultPlan)
    PROVE  EditorKept
<1>1. PICK done \in BOOLEAN, donePlans \in BOOLEAN :
         /\ storage' = StorePlans(StoreCode(storage, code, done), e, donePlans)
         /\ editor' = Lose(Lose(e, "code", done), "plans", donePlans)
  BY DEF SaveBoth
<1> DEFINE f == Lose(e, "code", done)
           t == StoreCode(storage, code, done)
<1>2. /\ Panel(f) /\ Stored(t) /\ CodeFits(f, t) /\ f.plans = e.plans
      /\ f.currentId = e.currentId /\ f.touched = e.touched /\ t.plans = storage.plans
  BY StoreCodeFits DEF EditorInv, Storable
<1>3. storage' = StorePlans(t, f, donePlans) /\ editor' = Lose(f, "plans", donePlans)
  BY <1>1, <1>2 DEF StorePlans
<1> HIDE DEF f, t
<1>4. TextsFit(f, t)
  BY <1>2 DEF TextsFit, Storable
<1>5. /\ Fits(editor', storage') /\ Stored(storage') /\ editor'.plans = e.plans
      /\ storage'.plans \in {storage.plans, e.plans}
  BY <1>2, <1>3, <1>4, StorePlansFits
<1> QED BY <1>5 DEF EditorKept, EditorInv, Missing, Retyped, TextsFit, Storable

\* The fields of a panel after a handler has selected plan id of the list plans.
SelectedFields(f, e, code, plans, id) ==
    /\ f \in EditorStates /\ f.plans = plans /\ f.code = code
    /\ f.currentPlanId = id /\ f.currentId = id /\ f.modal = None /\ f.lost = e.lost
    /\ f.touched = e.touched
    /\ ~f.timer => ~e.timer /\ code = e.code

LEMMA SelectedType ==
    ASSUME NEW e \in EditorStates, NEW code \in Texts, NEW plans \in PlanLists, NEW id \in Ids
    PROVE  /\ SelectedFields([Selected(e, code, id) EXCEPT !.modal = None, !.plans = plans],
                             e, code, plans, id)
           /\ e.modal = None => SelectedFields(Selected(e, code, id), e, code, e.plans, id)
BY DEF SelectedFields, Selected, Edited, EditorStates

\* The text on the screen is the selected plan's.
LEMMA SelectedPanel ==
    ASSUME NEW e, NEW st, Panel(e), CodeFits(e, st), NEW code, NEW plans, NEW id, NEW f,
           SelectedFields(f, e, code, plans, id), Known(id, plans),
           id # None => plans[id] = code
    PROVE  /\ Panel(f) /\ CodeFits(f, st)
           /\ f.plans = plans /\ f.code = code /\ f.touched = e.touched
BY DEF SelectedFields, Panel, CodeFits

LEMMA MountedFacts ==
    ASSUME EditorInv, Mounted
    PROVE  /\ Fits(editor, storage) /\ Panel(editor) /\ CodeFits(editor, storage)
           /\ editor \in EditorStates /\ editor.plans \in PlanLists /\ editor.code \in Texts
           /\ Missing(storage.plans, editor.plans) \subseteq consent
           /\ TextsFit(editor, storage) /\ DOMAIN editor.plans \subseteq used
BY DEF EditorInv, Fits, Panel, EditorStates

\* A handler that leaves the list alone can store it.
LEMMA SameListStorable ==
    ASSUME EditorInv, Mounted, NEW e, Panel(e), e.plans = editor.plans,
           e.touched = editor.touched, UNCHANGED <<editSourceCode, used, consent>>
    PROVE  Storable(e)
BY MountedFacts DEF Storable, TextsFit

LEMMA TypeEditor ==
    ASSUME EditorInv, NEW text \in Texts, Type(text)
    PROVE  EditorKept
<1>1. /\ Mounted
      /\ editor' = [Edited(editor, text, editor.currentPlanId) EXCEPT
                       !.touched = @ \cup ({editor.currentPlanId} \ {None})]
      /\ UNCHANGED <<storage, editSourceCode, used, consent>>
  BY DEF Type, NoModal
<1>2. Fits(editor', storage) /\ editor'.plans = editor.plans
  BY <1>1, MountedFacts, TypedFits
<1> QED BY <1>1, <1>2, MountedFacts DEF EditorKept, EditorInv, Missing, Retyped

\* The timer stores the text as the last text and as the selected plan.
LEMMA AutosaveEditor ==
    ASSUME EditorInv, Autosave
    PROVE  EditorKept
<1> DEFINE id == editor.currentPlanId
           plans == [i \in DOMAIN editor.plans |->
                        IF i = id THEN editor.code ELSE editor.plans[i]]
           fired == [editor EXCEPT !.timer = FALSE]
<1>1. /\ Mounted /\ Panel(editor) /\ PlansFit(editor, storage) /\ editor \in EditorStates
      /\ editor.plans \in PlanLists /\ editor.code \in Texts /\ Stored(storage)
      /\ Missing(storage.plans, editor.plans) \subseteq consent
      /\ TextsFit(editor, storage) /\ DOMAIN editor.plans \subseteq used
      /\ DOMAIN storage.plans \subseteq used
      /\ UNCHANGED <<editSourceCode, used, consent>>
  BY MountedFacts DEF Autosave, Fits, EditorInv
<1>2. CASE id = None
  <2>1. PICK done \in BOOLEAN : /\ storage' = StoreCode(storage, editor.code, done)
                                /\ editor' = Lose(fired, "code", done)
    BY <1>2 DEF Autosave, SaveCode
  <2>2. /\ fired \in EditorStates /\ fired.plans = editor.plans /\ fired.code = editor.code
        /\ fired.currentPlanId = None /\ fired.currentId = editor.currentId
        /\ fired.modal = editor.modal /\ fired.takenOver = editor.takenOver
        /\ fired.lost = editor.lost /\ fired.touched = editor.touched
    BY <1>1, <1>2 DEF EditorStates
  <2> HIDE DEF fired
  <2>3. Panel(fired) /\ PlansFit(fired, storage)
    BY <1>1, <1>2, <2>2 DEF Panel, PlansFit
  <2>4. /\ Panel(editor') /\ Stored(storage') /\ CodeFits(editor', storage')
        /\ PlansFit(editor', storage') /\ editor'.plans = editor.plans
        /\ editor'.touched = editor.touched /\ storage'.plans = storage.plans
    BY <1>1, <2>1, <2>2, <2>3, StoreCodeFits
  <2>5. TextsFit(editor', storage')
    BY <1>1, <2>4 DEF TextsFit
  <2> QED BY <1>1, <2>4, <2>5 DEF EditorKept, EditorInv, Fits, Missing, Retyped
<1>3. CASE id # None
  <2> DEFINE e == [fired EXCEPT !.plans = plans]
  <2>1. SaveBoth(e, editor.code)
    BY <1>3 DEF Autosave
  <2>2. plans \in PlanLists /\ DOMAIN plans = DOMAIN editor.plans
    BY <1>1, PlanListFacts
  <2>3. /\ plans[id] = editor.code
        /\ \A i \in DOMAIN plans : i \notin editor.touched => plans[i] = editor.plans[i]
    BY <1>1, <1>3 DEF Panel, Known
  <2> HIDE DEF plans
  <2>4. /\ e \in EditorStates /\ e.plans = plans /\ e.code = editor.code
        /\ e.currentPlanId = id /\ e.currentId = editor.currentId
        /\ e.modal = editor.modal /\ e.takenOver = editor.takenOver
        /\ e.touched = editor.touched
    BY <1>1, <2>2 DEF EditorStates
  <2> HIDE DEF e
  <2>5. Panel(e)
    BY <1>1, <2>2, <2>3, <2>4 DEF Panel, Known
  <2>6. Missing(storage.plans, e.plans) \subseteq consent'
    BY <1>1, <2>2, <2>4 DEF Missing
  <2>7. TextsFit(e, storage)
    BY <1>1, <2>2, <2>3, <2>4 DEF TextsFit, Retyped
  <2>8. Storable(e)
    BY <1>1, <2>2, <2>4, <2>5, <2>6, <2>7 DEF Storable
  <2> QED BY <1>1, <2>1, <2>4, <2>8, SaveBothEditor
<1> QED BY <1>2, <1>3

LEMMA ResetEditor ==
    ASSUME EditorInv, Reset
    PROVE  EditorKept
<1> DEFINE e == Selected(editor, DefaultPlan, None)
<1>1. /\ Mounted /\ editor.modal = None /\ UNCHANGED <<editSourceCode, used, consent>>
      /\ SaveBoth(e, None)
  BY DEF Reset, NoModal
<1>2. None \in Ids /\ Known(None, editor.plans) /\ DefaultPlan \in Texts
  BY TextFacts DEF Ids, Known
<1>3. SelectedFields(e, editor, DefaultPlan, editor.plans, None)
  BY <1>1, <1>2, MountedFacts, SelectedType
<1> HIDE DEF e
<1>4. /\ Panel(e) /\ CodeFits(e, storage) /\ e.code = DefaultPlan
      /\ e.plans = editor.plans /\ e.touched = editor.touched
  BY <1>1, <1>2, <1>3, MountedFacts, SelectedPanel
<1>5. Storable(e)
  BY <1>1, <1>4, SameListStorable
<1> QED BY <1>1, <1>4, <1>5, SaveBothEditor

LEMMA SelectNewEditor ==
    ASSUME EditorInv, SelectNew
    PROVE  EditorKept
<1> DEFINE e == Selected(editor, DefaultPlan, None)
<1>1. /\ Mounted /\ editor.modal = None /\ UNCHANGED <<editSourceCode, used, consent>>
      /\ SavePlans(e)
  BY DEF SelectNew, NoModal
<1>2. None \in Ids /\ Known(None, editor.plans) /\ DefaultPlan \in Texts
  BY TextFacts DEF Ids, Known
<1>3. SelectedFields(e, editor, DefaultPlan, editor.plans, None)
  BY <1>1, <1>2, MountedFacts, SelectedType
<1> HIDE DEF e
<1>4. /\ Panel(e) /\ CodeFits(e, storage) /\ e.code = DefaultPlan
      /\ e.plans = editor.plans /\ e.touched = editor.touched
  BY <1>1, <1>2, <1>3, MountedFacts, SelectedPanel
<1>5. Storable(e)
  BY <1>1, <1>4, SameListStorable
<1> QED BY <1>1, <1>4, <1>5, SavePlansEditor

LEMMA SelectPlanEditor ==
    ASSUME EditorInv, NEW id \in SavedIds, SelectPlan(id)
    PROVE  EditorKept
<1> DEFINE e == Selected(editor, editor.plans[id], id)
<1>1. /\ Mounted /\ editor.modal = None /\ UNCHANGED <<editSourceCode, used, consent>>
      /\ SavePlans(e) /\ id \in DOMAIN editor.plans
  BY DEF SelectPlan, NoModal
<1>2. id \in Ids /\ Known(id, editor.plans) /\ editor.plans[id] \in Texts
  BY <1>1, MountedFacts, PlanListFacts DEF Ids, Known
<1>3. SelectedFields(e, editor, editor.plans[id], editor.plans, id)
  BY <1>1, <1>2, MountedFacts, SelectedType
<1> HIDE DEF e
<1>4. /\ Panel(e) /\ CodeFits(e, storage)
      /\ e.plans = editor.plans /\ e.touched = editor.touched
  BY <1>1, <1>2, <1>3, MountedFacts, SelectedPanel
<1>5. Storable(e)
  BY <1>1, <1>4, SameListStorable
<1> QED BY <1>1, <1>4, <1>5, SavePlansEditor

LEMMA ConfirmSaveAsEditor ==
    ASSUME EditorInv, ConfirmSaveAs
    PROVE  EditorKept
<1>1. PICK id \in SavedIds \ used :
         /\ used' = used \cup {id}
         /\ SavePlans([Selected(editor, editor.code, id) EXCEPT !.modal = None,
                         !.plans = [i \in DOMAIN editor.plans \cup {id} |->
                                      IF i = id THEN editor.code ELSE editor.plans[i]]])
  BY DEF ConfirmSaveAs
<1> DEFINE plans == [i \in DOMAIN editor.plans \cup {id} |->
                       IF i = id THEN editor.code ELSE editor.plans[i]]
           e == [Selected(editor, editor.code, id) EXCEPT !.modal = None, !.plans = plans]
<1>2. Mounted /\ UNCHANGED <<editSourceCode, consent>> /\ SavePlans(e)
  BY <1>1 DEF ConfirmSaveAs
<1>3. plans \in PlanLists /\ id \in DOMAIN plans /\ plans[id] = editor.code
  BY <1>2, MountedFacts, PlanListFacts
<1>4. /\ DOMAIN plans = DOMAIN editor.plans \cup {id}
      /\ \A i \in DOMAIN editor.plans \ {id} : plans[i] = editor.plans[i]
  OBVIOUS
<1> HIDE DEF plans
<1>5. Panel(e) /\ CodeFits(e, storage) /\ e.plans = plans /\ e.touched = editor.touched
  <2>1. SelectedFields(e, editor, editor.code, plans, id)
    BY <1>2, <1>3, MountedFacts, SelectedType DEF Ids
  <2>2. Known(id, plans)
    BY <1>3 DEF Known
  <2> HIDE DEF e
  <2> QED BY <1>2, <1>3, <2>1, <2>2, MountedFacts, SelectedPanel
<1> HIDE DEF e
<1>6. Missing(storage.plans, e.plans) \subseteq consent'
  BY <1>2, <1>4, <1>5, MountedFacts DEF Missing
<1>7. TextsFit(e, storage)
  <2>1. id \notin DOMAIN storage.plans
    BY DEF EditorInv
  <2> QED BY <1>2, <1>4, <1>5, <2>1, MountedFacts DEF TextsFit, Retyped
<1>8. Storable(e)
  BY <1>1, <1>2, <1>4, <1>5, <1>6, <1>7, MountedFacts DEF Storable
<1> QED BY <1>2, <1>5, <1>8, SavePlansEditor

LEMMA ConfirmDeleteEditor ==
    ASSUME EditorInv, ConfirmDelete
    PROVE  EditorKept
<1> DEFINE plans == RestrictDomain(editor.plans, LAMBDA i : i # editor.currentPlanId)
           e == [Selected(editor, editor.code, None) EXCEPT !.modal = None, !.plans = plans]
<1>1. /\ Mounted /\ UNCHANGED <<editSourceCode, used>> /\ SavePlans(e)
      /\ consent' = consent \cup {editor.modal.plan}
      /\ editor.modal # None /\ editor.modal.type = "delete" /\ editor.currentPlanId # None
  BY DEF ConfirmDelete
<1>2. editor.currentPlanId = editor.modal.plan
  BY <1>1, MountedFacts DEF Panel
<1>3. /\ plans \in PlanLists /\ DOMAIN plans = DOMAIN editor.plans \ {editor.currentPlanId}
      /\ \A i \in DOMAIN plans : plans[i] = editor.plans[i]
  <2>1. plans = [i \in DOMAIN editor.plans \ {editor.currentPlanId} |-> editor.plans[i]]
    <3>1. {i \in DOMAIN editor.plans : i # editor.currentPlanId}
            = DOMAIN editor.plans \ {editor.currentPlanId}
      OBVIOUS
    <3> QED BY <3>1 DEF RestrictDomain, Restrict
  <2> HIDE DEF plans
  <2> QED BY <1>1, <2>1, MountedFacts, PlanListFacts
<1> HIDE DEF plans
<1>4. Known(None, plans)
  BY DEF Known
<1>5. Panel(e) /\ CodeFits(e, storage) /\ e.plans = plans /\ e.touched = editor.touched
  <2>1. SelectedFields(e, editor, editor.code, plans, None)
    BY <1>1, <1>3, MountedFacts, SelectedType DEF Ids
  <2> HIDE DEF e
  <2> QED BY <1>1, <1>4, <2>1, MountedFacts, SelectedPanel
<1> HIDE DEF e
<1>6. Missing(storage.plans, e.plans) \subseteq consent'
  BY <1>1, <1>2, <1>3, <1>5, MountedFacts DEF Missing
<1>7. TextsFit(e, storage)
  BY <1>1, <1>3, <1>5, MountedFacts DEF TextsFit, Retyped
<1>8. Storable(e)
  BY <1>1, <1>3, <1>5, <1>6, <1>7, MountedFacts DEF Storable
<1> QED BY <1>1, <1>5, <1>8, SavePlansEditor

\* A question is asked about the selected plan; a dialog closes; a compilation starts
\* or ends.
LEMMA PanelOnlyEditor ==
    ASSUME EditorInv, Mounted, NEW c \in Requests \cup {None}, NEW m \in Modals \cup {None},
           m # None /\ m.type \in {"delete", "rename"} =>
              editor.currentPlanId \in {m.plan, None},
           editor' = [editor EXCEPT !.modal = m, !.compiling = c],
           UNCHANGED <<storage, editSourceCode, used, consent>>
    PROVE  EditorKept
<1>1. /\ editor' \in EditorStates /\ editor'.plans = editor.plans /\ editor'.modal = m
      /\ editor'.code = editor.code /\ editor'.currentPlanId = editor.currentPlanId
      /\ editor'.currentId = editor.currentId /\ editor'.timer = editor.timer
      /\ editor'.lost = editor.lost /\ editor'.takenOver = editor.takenOver
      /\ editor'.touched = editor.touched
  BY MountedFacts DEF EditorStates
<1>2. Fits(editor', storage)
  <2>1. Panel(editor')
    BY <1>1, MountedFacts DEF Panel
  <2> QED BY <1>1, <2>1, MountedFacts DEF Fits, CodeFits, PlansFit, TextsFit
<1> QED BY <1>1, <1>2, MountedFacts DEF EditorKept, EditorInv, Missing, Retyped

LEMMA DialogEditor ==
    ASSUME EditorInv,
           HandleSaveAs \/ AskAbout("delete") \/ AskAbout("rename") \/ CancelModal
    PROVE  EditorKept
<1>1. Mounted /\ UNCHANGED <<storage, editSourceCode, used, consent>>
  BY DEF HandleSaveAs, AskAbout, OpenModal, CancelModal, NoModal
<1>2. editor \in EditorStates /\ editor.compiling \in Requests \cup {None}
  BY <1>1, MountedFacts DEF EditorStates
<1>3. PICK m \in Modals \cup {None} :
         /\ editor' = [editor EXCEPT !.modal = m]
         /\ m # None /\ m.type \in {"delete", "rename"} => m.plan = editor.currentPlanId
  BY <1>2 DEF HandleSaveAs, AskAbout, OpenModal, CancelModal, Modals, Ids, EditorStates
<1>4. editor' = [editor EXCEPT !.modal = m, !.compiling = editor.compiling]
  BY <1>2, <1>3 DEF EditorStates
<1> QED BY <1>1, <1>2, <1>3, <1>4, PanelOnlyEditor

LEMMA ConfirmRenameEditor ==
    ASSUME EditorInv, ConfirmRename
    PROVE  EditorKept
<1> DEFINE e == [editor EXCEPT !.modal = None]
<1>1. Mounted /\ UNCHANGED <<editSourceCode, used, consent>> /\ SavePlans(e)
  BY DEF ConfirmRename
<1>2. /\ e \in EditorStates /\ e.modal = None /\ e.plans = editor.plans
      /\ e.code = editor.code /\ e.currentPlanId = editor.currentPlanId
      /\ e.currentId = editor.currentId /\ e.timer = editor.timer
      /\ e.lost = editor.lost /\ e.takenOver = editor.takenOver
      /\ e.touched = editor.touched
  BY <1>1, MountedFacts DEF EditorStates
<1> HIDE DEF e
<1>3. Panel(e) /\ CodeFits(e, storage)
  BY <1>1, <1>2, MountedFacts DEF Panel, CodeFits
<1>4. Storable(e)
  BY <1>1, <1>2, <1>3, SameListStorable
<1> QED BY <1>1, <1>3, <1>4, SavePlansEditor

LEMMA CompileEditor ==
    ASSUME EditorInv, NEW r \in Requests, HandleCompile(r) \/ CompileAnswered(r)
    PROVE  EditorKept
<1>1. UNCHANGED <<storage, editSourceCode, used, consent>>
  BY DEF HandleCompile, CompileAnswered
<1>2. CASE UNCHANGED editor
  BY <1>1, <1>2 DEF EditorKept, EditorInv, Mounted, Missing, Retyped
<1>3. CASE Mounted /\ \E c \in {r, None} : editor' = [editor EXCEPT !.compiling = c]
  <2>1. /\ editor \in EditorStates /\ editor.modal \in Modals \cup {None}
        /\ editor.modal # None /\ editor.modal.type \in {"delete", "rename"} =>
              editor.currentPlanId \in {editor.modal.plan, None}
    BY <1>3, MountedFacts DEF Panel, EditorStates
  <2>2. PICK c \in Requests \cup {None} :
           editor' = [editor EXCEPT !.modal = editor.modal, !.compiling = c]
    BY <1>3, <2>1 DEF EditorStates
  <2> QED BY <1>1, <1>3, <2>1, <2>2, PanelOnlyEditor
<1> QED BY <1>2, <1>3 DEF HandleCompile, CompileAnswered, NoModal

\* Every step of the session keeps the panel and the storage in step.
LEMMA NextEditor == EditorInv /\ [Next]_vars => EditorKept
<1> SUFFICES ASSUME EditorInv, [Next]_vars PROVE EditorKept
  OBVIOUS
<1>1. editSourceCode \in Texts \cup {None} /\ ViewedPlan \in Texts
  BY TextFacts DEF EditorInv
<1>2. CASE UNCHANGED <<editor, storage, editSourceCode, used, consent>>
  BY <1>2 DEF EditorKept, EditorInv, Mounted, Missing, Retyped
<1>3. CASE OpenPlan \/ (\E text \in {None, ViewedPlan} : OpenEditor(text)) \/ DockActs
  BY <1>1, <1>3, DockStepEditor DEF OpenPlan, OpenEditor, DockActs
<1>4. CASE LeavePlanView
  BY <1>4 DEF LeavePlanView, EditorKept, EditorInv, Mounted, Missing, Retyped
<1>5. CASE EditorActs
  <2>1. CASE Autosave
    BY <2>1, AutosaveEditor
  <2>2. CASE EditorInput
    BY <2>2, TypeEditor, ResetEditor, DialogEditor, ConfirmSaveAsEditor,
       SelectNewEditor, SelectPlanEditor, ConfirmDeleteEditor, ConfirmRenameEditor
       DEF EditorInput
  <2> QED BY <1>5, <2>1, <2>2 DEF EditorActs
<1>6. CASE \E r \in Requests : HandleCompile(r) \/ CompileAnswered(r)
  BY <1>6, CompileEditor
<1>7. CASE ServerActs \/ UNCHANGED vars
  BY <1>2, <1>7 DEF ServerActs, vars
<1> QED BY <1>3, <1>4, <1>5, <1>6, <1>7 DEF Next

LEMMA InitEditor == Init => EditorInv
<1> SUFFICES ASSUME Init PROVE EditorInv
  OBVIOUS
<1> DEFINE plans == [i \in Kept |-> DefaultPlan]
<1>1. PICK id \in Kept \cup {None} :
         storage = [editorCode |-> None, plans |-> plans, currentId |-> id]
  BY DEF Init, EditorInit
<1>2. editor = None /\ editSourceCode = None /\ used = Kept
  BY DEF Init, EditorInit
<1>3. plans \in PlanLists /\ DOMAIN plans = Kept
  BY TextFacts, PlanListFacts, EditorAssumption
<1> HIDE DEF plans
<1>4. id \in Ids
  BY EditorAssumption DEF Ids
<1>5. Stored(storage)
  BY <1>1, <1>3, <1>4 DEF Stored, StorageStates, Known
<1> QED BY <1>1, <1>2, <1>3, <1>5 DEF EditorInv, Mounted

\* What the panel shows is what a panel opened again shows (EditorPanel's two storage
\* keys and every dialog), but for the writes the storage refused, the empty text and
\* the plan that stays selected in the storage under a taken-over text.
THEOREM SessionQuietInStep == Spec => []QuietInStep
<1>1. EditorInv => QuietInStep
  <2> SUFFICES ASSUME EditorInv, Mounted PROVE QuietInStep
    BY DEF QuietInStep
  <2>1. /\ Start(storage).plans = storage.plans
        /\ Start(storage).currentPlanId = storage.currentId
        /\ Start(storage).code = LoadedCode(storage)
    BY DEF Start
  <2> QED BY <2>1, MountedFacts DEF QuietInStep, Fits, Panel, CodeFits, PlansFit, Known
<1>2. EditorInv /\ [Next]_vars => EditorInv'
  BY NextEditor DEF EditorKept
<1> QED BY <1>1, <1>2, InitEditor, PTL DEF Spec

\* A saved plan leaves the storage only after its own confirmed deletion (confirmDelete
\* acts on the selection at the time of the answer), whichever write brings it there.
THEOREM SessionDeletedByConsent == Spec => DeletedByConsent
<1> DEFINE A == \A id \in SavedIds :
          id \in DOMAIN storage.plans /\ id \notin DOMAIN storage'.plans => id \in consent'
<1>1. EditorInv /\ [Next]_vars => [A]_editorVars
  BY NextEditor DEF EditorKept, Missing
<1>2. EditorInv /\ [Next]_vars => EditorInv'
  BY NextEditor DEF EditorKept
<1> QED BY <1>1, <1>2, InitEditor, PTL DEF Spec, DeletedByConsent

\* The text of a saved plan is replaced in the storage only after the user has typed
\* into that plan (EditorPanel's autosave and every write of the list), but for a panel
\* that has started with another text than the selected plan's.
THEOREM SessionTextByTyping == Spec => TextByTyping
<1> DEFINE A == \A id \in DOMAIN storage.plans \cap DOMAIN storage'.plans :
                   storage.plans[id] # storage'.plans[id] => id \in editor.touched
<1>1. EditorInv /\ [Next]_vars => [A]_editorVars
  BY NextEditor DEF EditorKept, Retyped
<1>2. EditorInv /\ [Next]_vars => EditorInv'
  BY NextEditor DEF EditorKept
<1> QED BY <1>1, <1>2, InitEditor, PTL DEF Spec, TextByTyping

-----------------------------------------------------------------------------
(***************************************************************************)
(* The server.  A request that runs without having met another one of its  *)
(* name still finds its own source in the temporary file, and has read     *)
(* nothing else; a file is there only while a request of its name runs.    *)
(***************************************************************************)
ApiTypes ==
    /\ request \in [Requests -> RequestStates \cup {None}]
    /\ tempFile \in [Names -> Texts \cup {None}]
    /\ outDir \in [Requests -> Texts \cup {None}]

Meet(q, r) == Api!Running(q) /\ Api!Running(r) /\ Api!FileOf(q) = Api!FileOf(r)

\* What a request that met no other one keeps to.
OwnText(r) ==
    /\ Api!Running(r) => tempFile[Api!FileOf(r)] = request[r].source
    /\ Api!At(r, "read") => request[r].text = request[r].source
    /\ outDir[r] # None => outDir[r] = request[r].source /\ request[r].source.rev \in Good
    /\ Api!At(r, "answered") =>
          /\ request[r].answer \in {request[r].source, Failure}
          /\ request[r].answer # Failure => request[r].source.rev \in Good

ApiInv ==
    /\ ApiTypes
    /\ \A q, r \in Requests : q # r /\ Meet(q, r) => r \in shared
    /\ \A r \in Requests : Api!At(r, "read") => request[r].text # None
    /\ \A r \in Requests : outDir[r] # None => Api!At(r, "exited")
    /\ \A r \in Requests : r \notin shared => OwnText(r)
    /\ \A n \in Names : tempFile[n] # None =>
          \E r \in Requests : Api!Running(r) /\ Api!FileOf(r) = n

\* The record of a request, and the requests a step leaves alone.
LEMMA RequestFacts ==
    ASSUME ApiTypes, NEW r \in Requests, request[r] # None
    PROVE  /\ request[r] \in RequestStates
           /\ request[r].source \in Texts
           /\ Api!FileOf(r) = request[r].source.name
           /\ Api!FileOf(r) \in Names
BY DEF ApiTypes, RequestStates, Texts, Empty, Names, Api!FileOf

LEMMA OtherRequest ==
    ASSUME NEW q, request'[q] = request[q]
    PROVE  /\ Api!Running(q)' = Api!Running(q)
           /\ Api!FileOf(q)' = Api!FileOf(q)
           /\ \A phase : Api!At(q, phase)' = Api!At(q, phase)
BY DEF Api!Running, Api!FileOf, Api!At

\* A new request shares its file with the ones that run, or has it for itself.
LEMMA PostApi ==
    ASSUME ApiInv, NEW r \in Requests, NEW source \in Texts, Api!Post(r, source)
    PROVE  ApiInv'
<1> DEFINE others == {q \in Requests : Api!Running(q) /\ Api!FileOf(q) = source.name}
           posted == [source |-> source, phase |-> "spawned", text |-> None, answer |-> None]
<1>1. /\ request[r] = None
      /\ shared' = IF others = {} THEN shared ELSE shared \cup others \cup {r}
      /\ tempFile' = [tempFile EXCEPT ![source.name] = source]
      /\ request' = [request EXCEPT ![r] = posted]
      /\ outDir' = outDir
  BY DEF Api!Post
<1>2. ApiTypes /\ source.name \in Names
  BY DEF ApiInv, Texts, Empty, Names
<1>3. posted \in RequestStates /\ posted # None
  BY SessionAssumption DEF RequestStates
<1>4. ApiTypes'
  BY <1>1, <1>2, <1>3 DEF ApiTypes
<1>5. /\ request'[r] = posted
      /\ \A q \in Requests \ {r} : request'[q] = request[q]
      /\ tempFile'[source.name] = source
      /\ \A n \in Names \ {source.name} : tempFile'[n] = tempFile[n]
  BY <1>1, <1>2 DEF ApiTypes
<1>6. /\ Api!Running(r)' /\ Api!FileOf(r)' = source.name
      /\ \A phase : Api!At(r, phase)' => phase = "spawned"
  BY <1>3, <1>5 DEF Api!Running, Api!FileOf, Api!At
<1>7. \A q \in Requests \ {r} :
         /\ Api!Running(q)' = Api!Running(q) /\ Api!FileOf(q)' = Api!FileOf(q)
         /\ \A phase : Api!At(q, phase)' = Api!At(q, phase)
  BY <1>5, OtherRequest
<1>8. shared \subseteq shared' /\ \A q \in others : q \in shared' /\ r \in shared'
  BY <1>1
<1>9. \A q \in Requests \ {r} : Api!Running(q) /\ q \notin shared' =>
         tempFile'[Api!FileOf(q)] = tempFile[Api!FileOf(q)]
  <2> SUFFICES ASSUME NEW q \in Requests \ {r}, Api!Running(q), q \notin shared'
               PROVE  tempFile'[Api!FileOf(q)] = tempFile[Api!FileOf(q)]
    OBVIOUS
  <2>1. Api!FileOf(q) # source.name
    BY <1>8
  <2>2. Api!FileOf(q) \in Names
    BY <1>2, RequestFacts DEF Api!Running
  <2> QED BY <1>5, <2>1, <2>2
<1>10. \A q1, q2 \in Requests : q1 # q2 /\ Meet(q1, q2)' => q2 \in shared'
  <2> SUFFICES ASSUME NEW q1 \in Requests, NEW q2 \in Requests, q1 # q2, Meet(q1, q2)'
               PROVE  q2 \in shared'
    OBVIOUS
  <2>1. CASE q1 = r \/ q2 = r
    BY <1>6, <1>7, <1>8, <2>1 DEF Meet
  <2>2. CASE q1 # r /\ q2 # r
    BY <1>7, <1>8, <2>2 DEF Meet, ApiInv
  <2> QED BY <2>1, <2>2
<1>11. outDir[r] = None
  BY <1>1 DEF ApiInv, Api!At
<1>12. \A q \in Requests : Api!At(q, "read")' => request'[q].text # None
  BY <1>5, <1>6, <1>7 DEF ApiInv
<1>13. \A q \in Requests : outDir'[q] # None => Api!At(q, "exited")'
  BY <1>1, <1>7, <1>11 DEF ApiInv
<1>14. \A q \in Requests : q \notin shared' => OwnText(q)'
  <2>1. OwnText(r)'
    BY <1>1, <1>5, <1>6, <1>11 DEF OwnText
  <2>2. ASSUME NEW q \in Requests \ {r}, q \notin shared' PROVE OwnText(q)'
    BY <1>1, <1>5, <1>7, <1>8, <1>9, <2>2 DEF ApiInv, OwnText
  <2> QED BY <2>1, <2>2
<1>15. \A n \in Names : tempFile'[n] # None =>
          \E q \in Requests : Api!Running(q)' /\ Api!FileOf(q)' = n
  <2> SUFFICES ASSUME NEW n \in Names, n # source.name, tempFile'[n] # None
               PROVE  \E q \in Requests : Api!Running(q)' /\ Api!FileOf(q)' = n
    BY <1>6
  <2>1. PICK q \in Requests : Api!Running(q) /\ Api!FileOf(q) = n
    BY <1>5 DEF ApiInv
  <2>2. q # r
    BY <1>1, <2>1 DEF Api!Running
  <2> QED BY <1>7, <2>1, <2>2
<1> QED BY <1>4, <1>10, <1>12, <1>13, <1>14, <1>15 DEF ApiInv

\* A step of one request that leaves it running and the files alone: it reads its
\* own file, fails to start, or builds.
LEMMA RunningApi ==
    ASSUME ApiInv, NEW r \in Requests, NEW next \in RequestStates,
           Api!Running(r), next.phase # "answered", next.source = request[r].source,
           request' = [request EXCEPT ![r] = next],
           tempFile' = tempFile, shared' = shared,
           NEW out \in Texts \cup {None}, outDir' = [outDir EXCEPT ![r] = out],
           next.phase = "read" =>
              next.text # None /\ (r \notin shared => next.text = next.source),
           out # None =>
              /\ next.phase = "exited"
              /\ r \notin shared => out = next.source /\ next.source.rev \in Good
    PROVE  ApiInv'
<1>1. ApiTypes /\ ApiTypes'
  BY DEF ApiInv, ApiTypes
<1>2. request'[r] = next /\ next # None /\ outDir'[r] = out
  BY <1>1, SessionAssumption DEF ApiTypes
<1>3. /\ Api!Running(r)' /\ Api!FileOf(r)' = Api!FileOf(r)
      /\ \A phase : Api!At(r, phase)' <=> next.phase = phase
  BY <1>2 DEF Api!Running, Api!FileOf, Api!At
<1>4. \A q \in Requests \ {r} :
         /\ request'[q] = request[q] /\ outDir'[q] = outDir[q]
         /\ Api!Running(q)' = Api!Running(q) /\ Api!FileOf(q)' = Api!FileOf(q)
         /\ \A phase : Api!At(q, phase)' = Api!At(q, phase)
  BY <1>1, OtherRequest DEF ApiTypes
<1>5. \A q1, q2 \in Requests : q1 # q2 /\ Meet(q1, q2)' => q2 \in shared'
  BY <1>3, <1>4 DEF ApiInv, Meet
<1>6. \A q \in Requests : Api!At(q, "read")' => request'[q].text # None
  BY <1>2, <1>3, <1>4 DEF ApiInv
<1>7. \A q \in Requests : outDir'[q] # None => Api!At(q, "exited")'
  BY <1>2, <1>3, <1>4 DEF ApiInv
<1>8. \A q \in Requests : q \notin shared' => OwnText(q)'
  <2>1. r \notin shared => OwnText(r)'
    BY <1>2, <1>3 DEF ApiInv, OwnText
  <2>2. ASSUME NEW q \in Requests \ {r}, q \notin shared PROVE OwnText(q)'
    BY <1>4, <2>2 DEF ApiInv, OwnText
  <2> QED BY <2>1, <2>2
<1>9. \A n \in Names : tempFile'[n] # None =>
          \E q \in Requests : Api!Running(q)' /\ Api!FileOf(q)' = n
  BY <1>3, <1>4 DEF ApiInv
<1> QED BY <1>1, <1>5, <1>6, <1>7, <1>8, <1>9 DEF ApiInv

LEMMA DslcReadApi ==
    ASSUME ApiInv, NEW r \in Requests, Api!DslcRead(r)
    PROVE  ApiInv'
<1> DEFINE text == tempFile[Api!FileOf(r)]
           next == [request[r] EXCEPT !.text = text,
                                      !.phase = IF text = None THEN "exited" ELSE "read"]
<1>1. ApiTypes /\ request[r] # None /\ request[r].phase = "spawned"
  BY DEF Api!DslcRead, Api!At, ApiInv
<1>2. request[r] \in RequestStates /\ text \in Texts \cup {None}
  BY <1>1, RequestFacts DEF ApiTypes
<1>3. /\ request' = [request EXCEPT ![r] = next]
      /\ tempFile' = tempFile /\ shared' = shared /\ outDir' = [outDir EXCEPT ![r] = outDir[r]]
  BY <1>1 DEF Api!DslcRead, ApiTypes
<1>4. /\ next \in RequestStates /\ next.source = request[r].source /\ next.text = text
      /\ next.phase \in {"exited", "read"} /\ (next.phase = "read" => text # None)
  BY <1>2 DEF RequestStates
<1>5. Api!Running(r) /\ outDir[r] = None
  BY <1>1 DEF Api!Running, Api!At, ApiInv
<1>6. r \notin shared => text = request[r].source
  BY <1>5 DEF ApiInv, OwnText
<1> HIDE DEF next, text
<1> QED BY <1>3, <1>4, <1>5, <1>6, RunningApi

LEMMA SpawnFailsApi ==
    ASSUME ApiInv, NEW r \in Requests, Api!SpawnFails(r)
    PROVE  ApiInv'
<1> DEFINE next == [request[r] EXCEPT !.phase = "exited"]
<1>1. ApiTypes /\ request[r] # None /\ request[r].phase = "spawned"
  BY DEF Api!SpawnFails, Api!At, ApiInv
<1>2. request[r] \in RequestStates
  BY <1>1, RequestFacts
<1>3. /\ request' = [request EXCEPT ![r] = next]
      /\ tempFile' = tempFile /\ shared' = shared /\ outDir' = [outDir EXCEPT ![r] = outDir[r]]
  BY <1>1 DEF Api!SpawnFails, ApiTypes
<1>4. next \in RequestStates /\ next.source = request[r].source /\ next.phase = "exited"
  BY <1>2 DEF RequestStates
<1>5. Api!Running(r) /\ outDir[r] = None
  BY <1>1 DEF Api!Running, Api!At, ApiInv
<1> HIDE DEF next
<1> QED BY <1>3, <1>4, <1>5, RunningApi

LEMMA DslcBuildApi ==
    ASSUME ApiInv, NEW r \in Requests, Api!DslcBuild(r)
    PROVE  ApiInv'
<1> DEFINE text == request[r].text
           bundled == IF text.name = Default THEN text ELSE tempFile[Api!FileOf(r)]
           out == IF bundled # None /\ text.rev \in Good /\ bundled.rev \in Good
                  THEN bundled ELSE None
           next == [request[r] EXCEPT !.phase = "exited"]
<1>1. ApiTypes /\ request[r] # None /\ request[r].phase = "read" /\ Api!At(r, "read")
  BY DEF Api!DslcBuild, Api!At, ApiInv
<1>2. request[r] \in RequestStates /\ text \in Texts /\ tempFile[Api!FileOf(r)] \in Texts \cup {None}
  BY <1>1, RequestFacts DEF ApiTypes, ApiInv, RequestStates
<1>3. Api!Running(r) /\ outDir[r] = None
  BY <1>1 DEF Api!Running, Api!At, ApiInv
<1>4. /\ request' = [request EXCEPT ![r] = next]
      /\ tempFile' = tempFile /\ shared' = shared
  BY DEF Api!DslcBuild
<1>5. outDir' = [outDir EXCEPT ![r] = out]
  <2>1. outDir' = IF bundled # None /\ text.rev \in Good /\ bundled.rev \in Good
                  THEN [outDir EXCEPT ![r] = bundled] ELSE outDir
    BY DEF Api!DslcBuild
  <2> QED BY <1>1, <1>3, <2>1 DEF ApiTypes
<1>6. next \in RequestStates /\ next.source = request[r].source /\ next.phase = "exited"
  BY <1>2 DEF RequestStates
<1>7. r \notin shared => text = request[r].source /\ bundled = request[r].source
  BY <1>1, <1>3 DEF ApiInv, OwnText
<1>8. /\ out \in Texts \cup {None}
      /\ out # None /\ r \notin shared =>
            out = request[r].source /\ request[r].source.rev \in Good
  BY <1>2, <1>7
<1> HIDE DEF next, out, bundled, text
<1> QED BY <1>3, <1>4, <1>5, <1>6, <1>8, RunningApi

\* The cleanup takes the file away: from the request itself, and from requests
\* that share it.
LEMMA CloseApi ==
    ASSUME ApiInv, NEW r \in Requests, Api!Close(r)
    PROVE  ApiInv'
<1> DEFINE f == Api!FileOf(r)
           answer == IF outDir[r] = None THEN Failure ELSE outDir[r]
           next == [request[r] EXCEPT !.phase = "answered", !.answer = answer]
<1>1. ApiTypes /\ request[r] # None /\ request[r].phase = "exited" /\ Api!Running(r)
  BY DEF Api!Close, Api!At, Api!Running, ApiInv
<1>2. request[r] \in RequestStates /\ f \in Names /\ outDir[r] \in Texts \cup {None}
  BY <1>1, RequestFacts DEF ApiTypes
<1>3. /\ request' = [request EXCEPT ![r] = next]
      /\ tempFile' = [tempFile EXCEPT ![f] = None]
      /\ outDir' = [outDir EXCEPT ![r] = None]
      /\ shared' = shared
  BY <1>1 DEF Api!Close, ApiTypes
<1>4. /\ next \in RequestStates /\ next # None /\ next.source = request[r].source
      /\ next.phase = "answered" /\ next.answer = answer
  BY <1>2, SessionAssumption DEF RequestStates
<1> HIDE DEF next
<1>5. ApiTypes'
  BY <1>1, <1>3, <1>4 DEF ApiTypes
<1>6. /\ request'[r] = next /\ outDir'[r] = None /\ tempFile'[f] = None
      /\ \A n \in Names \ {f} : tempFile'[n] = tempFile[n]
  BY <1>1, <1>2, <1>3 DEF ApiTypes
<1>7. ~Api!Running(r)' /\ (\A phase : Api!At(r, phase)' => phase = "answered")
  BY <1>4, <1>6 DEF Api!Running, Api!At
<1>8. \A q \in Requests \ {r} :
         /\ request'[q] = request[q] /\ outDir'[q] = outDir[q]
         /\ Api!Running(q)' = Api!Running(q) /\ Api!FileOf(q)' = Api!FileOf(q)
         /\ \A phase : Api!At(q, phase)' = Api!At(q, phase)
  BY <1>1, <1>3, OtherRequest DEF ApiTypes
<1>9. \A q \in Requests \ {r} : Api!Running(q) /\ q \notin shared =>
         tempFile'[Api!FileOf(q)] = tempFile[Api!FileOf(q)]
  <2> SUFFICES ASSUME NEW q \in Requests \ {r}, Api!Running(q), q \notin shared
               PROVE  tempFile'[Api!FileOf(q)] = tempFile[Api!FileOf(q)]
    OBVIOUS
  <2>1. Api!FileOf(q) # f
    BY <1>1 DEF ApiInv, Meet
  <2>2. Api!FileOf(q) \in Names
    BY <1>1, RequestFacts DEF Api!Running
  <2> QED BY <1>6, <2>1, <2>2
<1>10. \A q1, q2 \in Requests : q1 # q2 /\ Meet(q1, q2)' => q2 \in shared'
  BY <1>3, <1>7, <1>8 DEF ApiInv, Meet
<1>11. \A q \in Requests : Api!At(q, "read")' => request'[q].text # None
  BY <1>7, <1>8 DEF ApiInv
<1>12. \A q \in Requests : outDir'[q] # None => Api!At(q, "exited")'
  BY <1>6, <1>8 DEF ApiInv
<1>13. \A q \in Requests : q \notin shared' => OwnText(q)'
  <2>1. r \notin shared => OwnText(r)'
    <3>1. r \notin shared => /\ answer \in {next.source, Failure}
                             /\ answer # Failure => next.source.rev \in Good
      BY <1>4 DEF ApiInv, OwnText
    <3> QED BY <1>4, <1>6, <1>7, <3>1 DEF OwnText
  <2>2. ASSUME NEW q \in Requests \ {r}, q \notin shared PROVE OwnText(q)'
    BY <1>8, <1>9, <2>2 DEF ApiInv, OwnText
  <2> QED BY <1>3, <2>1, <2>2
<1>14. \A n \in Names : tempFile'[n] # None =>
          \E q \in Requests : Api!Running(q)' /\ Api!FileOf(q)' = n
  <2> SUFFICES ASSUME NEW n \in Names, n # f, tempFile'[n] # None
               PROVE  \E q \in Requests : Api!Running(q)' /\ Api!FileOf(q)' = n
    BY <1>6
  <2>1. PICK q \in Requests : Api!Running(q) /\ Api!FileOf(q) = n
    BY <1>6 DEF ApiInv
  <2> QED BY <1>8, <2>1
<1> QED BY <1>5, <1>10, <1>11, <1>12, <1>13, <1>14 DEF ApiInv

LEMMA TakenApi ==
    ASSUME ApiInv, NEW r \in Requests, Api!Taken(r)
    PROVE  ApiInv'
<1>1. /\ ApiTypes /\ request[r].phase = "answered" /\ ~Api!Running(r)
      /\ request' = [request EXCEPT ![r] = None]
      /\ shared' = shared \ {r} /\ tempFile' = tempFile /\ outDir' = outDir
  BY DEF Api!Taken, Api!At, Api!Running, ApiInv
<1>2. ApiTypes' /\ request'[r] = None
  BY <1>1 DEF ApiTypes
<1>3. ~Api!Running(r)' /\ (\A phase : ~Api!At(r, phase)') /\ outDir[r] = None
  BY <1>1, <1>2 DEF Api!Running, Api!At, ApiInv
<1>4. \A q \in Requests \ {r} :
         /\ request'[q] = request[q]
         /\ Api!Running(q)' = Api!Running(q) /\ Api!FileOf(q)' = Api!FileOf(q)
         /\ \A phase : Api!At(q, phase)' = Api!At(q, phase)
  BY <1>1, OtherRequest DEF ApiTypes
<1>5. \A q1, q2 \in Requests : q1 # q2 /\ Meet(q1, q2)' => q2 \in shared'
  BY <1>1, <1>3, <1>4 DEF ApiInv, Meet
<1>6. \A q \in Requests : Api!At(q, "read")' => request'[q].text # None
  BY <1>3, <1>4 DEF ApiInv
<1>7. \A q \in Requests : outDir'[q] # None => Api!At(q, "exited")'
  BY <1>1, <1>3, <1>4 DEF ApiInv
<1>8. \A q \in Requests : q \notin shared' => OwnText(q)'
  <2>1. OwnText(r)'
    BY <1>1, <1>3 DEF OwnText
  <2>2. ASSUME NEW q \in Requests \ {r}, q \notin shared' PROVE OwnText(q)'
    BY <1>1, <1>4, <2>2 DEF ApiInv, OwnText
  <2> QED BY <2>1, <2>2
<1>9. \A n \in Names : tempFile'[n] # None =>
          \E q \in Requests : Api!Running(q)' /\ Api!FileOf(q)' = n
  BY <1>1, <1>3, <1>4 DEF ApiInv
<1> QED BY <1>2, <1>5, <1>6, <1>7, <1>8, <1>9 DEF ApiInv

LEMMA SameApi == ApiInv /\ UNCHANGED api => ApiInv'
BY DEF api, ApiInv, ApiTypes, Meet, OwnText, Api!Running, Api!FileOf, Api!At

\* Only the editor posts, and what it posts is the text on its screen.
LEMMA NextApi == EditorInv /\ ApiInv /\ [Next]_vars => ApiInv'
<1> SUFFICES ASSUME EditorInv, ApiInv, [Next]_vars PROVE ApiInv'
  OBVIOUS
<1>1. CASE UNCHANGED api
  BY <1>1, SameApi
<1>2. CASE \E r \in Requests : HandleCompile(r)
  <2>1. PICK r \in Requests : HandleCompile(r)
    BY <1>2
  <2>2. editor.code \in Texts
    BY <2>1, MountedFacts DEF HandleCompile, NoModal
  <2> QED BY <2>1, <2>2, PostApi DEF HandleCompile
<1>3. CASE \E r \in Requests : CompileAnswered(r)
  BY <1>3, TakenApi DEF CompileAnswered
<1>4. CASE ServerActs
  BY <1>4, DslcReadApi, DslcBuildApi, SpawnFailsApi, CloseApi DEF ServerActs, Api!ApiStep
<1>5. [Next]_vars => \/ UNCHANGED api \/ ServerActs
                     \/ \E r \in Requests : HandleCompile(r) \/ CompileAnswered(r)
  BY DEF Next, vars, api, OpenPlan, OpenEditor, LeavePlanView, DockActs, DockStep, EditorActs
<1> QED BY <1>1, <1>2, <1>3, <1>4, <1>5

\* A request that met no other one of its name gets its own artifact or a failure,
\* and an idle server has no temporary file left (vite.config.ts's compile plugin).
THEOREM SessionCompileOwn == Spec => []CompileOwn
<1>1. Init => ApiInv
  <2> SUFFICES ASSUME Init PROVE ApiInv
    OBVIOUS
  <2>1. /\ request = [r \in Requests |-> None] /\ outDir = [r \in Requests |-> None]
        /\ tempFile = [n \in Names |-> None]
    BY DEF Init, Api!ApiInit
  <2> QED BY <2>1 DEF ApiInv, ApiTypes, Meet, OwnText, Api!Running, Api!At
<1>2. ApiInv => CompileOwn
  <2> SUFFICES ASSUME ApiInv PROVE CompileOwn
    OBVIOUS
  <2>1. \A r \in Requests : Api!At(r, "answered") /\ r \notin shared =>
           /\ request[r].answer \in {request[r].source, Failure}
           /\ request[r].answer # Failure => request[r].source.rev \in Good
    BY DEF ApiInv, OwnText
  <2>2. \A r \in Requests : Api!At(r, "exited") => Api!Running(r)
    BY DEF Api!At, Api!Running
  <2>3. (\A r \in Requests : ~Api!Running(r)) =>
           /\ \A n \in Names : tempFile[n] = None
           /\ \A r \in Requests : outDir[r] = None
    BY <2>2 DEF ApiInv
  <2> QED BY <2>1, <2>3 DEF CompileOwn, Api!CompileOwn
<1>3. EditorInv /\ [Next]_vars => EditorInv'
  BY NextEditor DEF EditorKept
<1> QED BY <1>1, <1>2, <1>3, InitEditor, NextApi, PTL DEF Spec

=============================================================================
