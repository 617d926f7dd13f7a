------------------------------ MODULE DockLayout ------------------------------
(***************************************************************************)
(* The dock that holds the panels of the plan view, and the layouts it     *)
(* keeps in the local storage, one for viewing and one for editing.  A     *)
(* layout is the set of its panels; mode is the mode it was arranged for,  *)
(* which no code reads.  Sizes and positions are left out.  A write to the *)
(* storage that fails is swallowed.                                        *)
(*                                                                         *)
(* dockview is external: it reports a change of the layout some time after *)
(* the change, and the listener then reads what is there.                  *)
(***************************************************************************)
EXTENDS FiniteSets

CONSTANTS
    Panels,      \* 'editor', 'canvas', 'details' and 'source', or some of them
    Unset        \* null

ASSUME DockAssumption == {"editor", "canvas"} \subseteq Panels

VARIABLES
    dock,        \* the mounted dock, or Unset
    layouts      \* localStorage: per mode, the layout stored, or Unset

dockVars == <<dock, layouts>>

Modes == {"view", "edit"}

DefaultPanels(mode) ==
    Panels \cap IF mode = "edit" THEN {"editor", "canvas", "details"}
                                 ELSE {"canvas", "details"}

DockInit ==
    /\ dock = Unset
    /\ layouts = [m \in Modes |-> Unset]

Docked == dock # Unset

\* setDockLayout and removeDockLayout: the layouts after a write, done or swallowed.
Stores(mode, layout) == {layouts, [layouts EXCEPT ![mode] = layout]}

\* The layout on the screen, as toJSON gives it.
ToJSON == [mode |-> dock.initializedMode, panels |-> dock.panels]

\* fromJSON of the stored layout; the default if there is none or it throws.
RestoredPanels(stored, mode) ==
    {DefaultPanels(mode)} \cup IF stored = Unset THEN {} ELSE {stored.panels}

\* handleReady: the listener is added after the layout is there.
Ready(mode) ==
    /\ ~Docked
    /\ \E panels \in RestoredPanels(layouts[mode], mode) :
          dock' = [panels |-> panels, initializedMode |-> mode, modeRef |-> mode,
                   changed |-> FALSE]
    /\ UNCHANGED layouts

\* Mutant: the listener keeps the mode it was created with.
ChangeModeStaleRef(mode) ==
    /\ Docked
    /\ dock.initializedMode # mode
    /\ \E saved \in Stores(dock.initializedMode, ToJSON) :
           /\ layouts' = saved
           /\ \E panels \in RestoredPanels(saved[mode], mode) :
                 dock' = [panels |-> panels, initializedMode |-> mode,
                          modeRef |-> dock.modeRef, changed |-> TRUE]

\* The two effects on a change of the mode: modeRef first, then the layout on
\* the screen is stored for the old mode and the new mode's one is loaded.
ChangeMode(mode) ==
    /\ Docked
    /\ dock.initializedMode # mode
    /\ \E saved \in Stores(dock.initializedMode, ToJSON) :
           /\ layouts' = saved
           /\ \E panels \in RestoredPanels(saved[mode], mode) :
                 dock' = [panels |-> panels, initializedMode |-> mode,
                          modeRef |-> mode, changed |-> TRUE]

\* onDidLayoutChange
LayoutChanged ==
    /\ Docked
    /\ dock.changed
    /\ layouts' \in Stores(dock.modeRef, ToJSON)
    /\ dock' = [dock EXCEPT !.changed = FALSE]

\* The Add menu, which offers an editor only for editing and a source only
\* for viewing, and addPanel, which stores the layout at once.
AddPanel(p) ==
    /\ Docked
    /\ p \notin dock.panels
    /\ p = "editor" => dock.modeRef = "edit"
    /\ p = "source" => dock.modeRef = "view"
    /\ LET panels == dock.panels \cup {p}
       IN  /\ dock' = [dock EXCEPT !.panels = panels, !.changed = TRUE]
           /\ layouts' \in Stores(dock.modeRef, [ToJSON EXCEPT !.panels = panels])

ClosePanel(p) ==
    /\ Docked
    /\ p \in dock.panels
    /\ dock' = [dock EXCEPT !.panels = @ \ {p}, !.changed = TRUE]
    /\ UNCHANGED layouts

\* resetLayout: the dock is cleared and built anew, so that an editor starts again.
ResetLayout ==
    /\ Docked
    /\ dock' = [dock EXCEPT !.panels = DefaultPanels(dock.modeRef), !.changed = TRUE]
    /\ layouts' \in Stores(dock.modeRef, Unset)

\* App leaves the plan view: the dock goes, with a change not yet reported.
Unmount ==
    /\ Docked
    /\ dock' = Unset
    /\ UNCHANGED layouts

\* A layout stored for a mode was arranged in that mode: the stored layout for
\* viewing never brings an editor up, whenever the mode changes relative to the
\* reports of the dock, and whichever writes the storage refuses.
LayoutOfMode ==
    \A m \in Modes :
        layouts[m] # Unset =>
            /\ layouts[m].mode = m
            /\ m = "view" => "editor" \notin layouts[m].panels

=============================================================================
