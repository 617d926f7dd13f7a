------------------------------ MODULE Visualizer ------------------------------
(***************************************************************************)
(* The visualizer's pages on top of the store: App with its navigation,    *)
(* the plan selector, the canvas' selection, the registry viewer, and the  *)
(* browser's Back, Forward and Reload.  JavaScript runs one handler at a   *)
(* time, so a step is a handler up to its first await, or the rest of one  *)
(* after the answer it awaited; React's effects run before the next step.  *)
(* Answers arrive in any order, and any of them may be a failure.          *)
(*                                                                         *)
(* The editor is only what the store sees of it: a compilation that ends   *)
(* in loadPlan with skipHistory.  Module EditorSession has the rest.       *)
(***************************************************************************)
EXTENDS PlanStore

CONSTANTS
    MaxUser,     \* bound: actions of the user
    MaxHistory,  \* bound: entries of the browser's history
    MaxPending   \* bound: requests in flight when the user acts

ASSUME BoundAssumption ==
    /\ MaxUser \in Nat
    /\ MaxHistory \in Nat
    /\ MaxPending \in Nat

VARIABLES
    app,         \* App's mode and currentView
    panels,      \* the registry viewer's open panels, topmost last
    interrupted, \* history: "pop" or "leave" came while an earlier load was awaited
    user         \* actions of the user so far

vars == <<store, browser, handling, pending, app, panels, interrupted, user>>

ShowHomePage(s, a) == a.view = "home" /\ a.mode = "view" /\ s.planJson = None
ShowRegistries(a) == a.view = "registries"
ShowPlanView(s, a) == ~ShowHomePage(s, a) /\ ~ShowRegistries(a)

ViewOf(url) == url.view

\* Awaited by code that holds isHandlingPopState, or soon will.
Awaited(r) == r.caller # "none"

Interrupt(kind) ==
    interrupted' = IF \E i \in DOMAIN pending : Awaited(pending[i])
                   THEN interrupted \cup {kind} ELSE interrupted

--------------------------------------------------------------------------------
(* What React does after a handler: the selector that appears loads the    *)
(* index, the registry viewer opens the panel of the selected entry when   *)
(* the entry, the tab or the registries have changed, and forgets its      *)
(* panels when it goes.  Its own load of the registries never starts:      *)
(* every way to it has started one, and a failed one leaves an error.      *)

Selected(s) == [id |-> s.selectedRegistryEntry, tab |-> s.selectedRegistryTab]

AutoOpen(s, a, ps) ==
    LET watched(st) == <<Selected(st), st.registries>>
        before == IF ShowRegistries(app) THEN ps ELSE <<>>
        fires == ~ShowRegistries(app) \/ watched(s) # watched(store)
    IN  IF ~ShowRegistries(a) THEN <<>>
        ELSE IF /\ fires
                /\ s.selectedRegistryEntry # None
                /\ HasRegistries(s)
                /\ ~Contains(before, Selected(s))
             THEN Append(before, Selected(s))
             ELSE before

Commit(s, a, requests, ps) ==
    LET mounts == ShowHomePage(s, a) /\ ~ShowHomePage(store, app)
    IN  /\ store' = IF mounts THEN LoadIndex(s) ELSE s
        /\ pending' = IF mounts THEN Append(requests, Request("index", None, "none"))
                                ELSE requests
        /\ app' = a
        /\ panels' = AutoOpen(s, a, ps)

--------------------------------------------------------------------------------
(* Loading the page: initHistory, then the first render, whose currentView *)
(* is 'home' until the effect has looked at the address, so that the       *)
(* selector appears once and loads the index.                              *)

BootRequests(url) ==
    Append(CASE url.view = "registries" -> <<Request("registries", url, "init")>>
             [] url.view = "plan" -> <<Request("index", url.plan, "init")>>
             [] OTHER -> <<>>,
           Request("index", None, "none"))

Booted(url) ==
    LET s == LoadIndex(InitialStore)
    IN  IF url.view = "registries" THEN LoadRegistries(s) ELSE s

BootApp(url) == [mode |-> "view", view |-> ViewOf(url)]

Init ==
    \E url \in {HomeUrl, RegistryUrl(FirstTab, None)}
                   \cup {PlanUrl(p) : p \in Plans} :
        /\ browser = [entries |-> <<url>>, at |-> 1]
        /\ store = Booted(url)
        /\ pending = BootRequests(url)
        /\ handling = (url.view = "registries")
        /\ app = BootApp(url)
        /\ panels = <<>>
        /\ interrupted = {}
        /\ user = 0

UserActs ==
    /\ user < MaxUser
    /\ Len(pending) < MaxPending
    /\ user' = user + 1

CanPush == browser.at + 2 <= MaxHistory

Reload ==
    /\ UserActs
    /\ store' = Booted(Url)
    /\ pending' = BootRequests(Url)
    /\ handling' = (Url.view = "registries")
    /\ app' = BootApp(Url)
    /\ panels' = <<>>
    /\ interrupted' = {}
    /\ UNCHANGED browser

--------------------------------------------------------------------------------
(* The popstate listener of the store, then the one of App. *)

\* What the listener does before its first await, and what it then awaits.
PopStore(s, url) ==
    CASE url.view = "plan" -> LoadPlanByName(s, url.plan)
      [] url.view = "home" -> ClearPlan(s)
      [] url.view = "registries" ->
            IF HasRegistries(s) THEN ShowRegistryUrl(ClearPlan(s), url)
                            ELSE LoadRegistries(ClearPlan(s))

PopRequests(s, url) ==
    CASE url.view = "plan" -> PlanRequests(s, url.plan, "pop")
      [] url.view = "home" -> <<>>
      [] url.view = "registries" ->
            IF HasRegistries(s) THEN <<>> ELSE <<Request("registries", url, "pop")>>

\* The flag is cleared on the way out, whoever else still relies on it.
PopState ==
    /\ UserActs
    /\ \E at \in {browser.at - 1, browser.at + 1} \cap 1..Len(browser.entries) :
          LET url == browser.entries[at]
              awaits == PopRequests(store, url)
          IN  /\ browser' = [browser EXCEPT !.at = at]
              /\ handling' = (awaits # <<>>)
              /\ Commit(PopStore(store, url), [app EXCEPT !.view = ViewOf(url)],
                        pending \o awaits, panels)
    /\ Interrupt("pop")

--------------------------------------------------------------------------------
(* Answers.  Each takes one request, and what it asks for next, off and on *)
(* the list of those in flight.                                            *)

Rest(i, more) == RemoveAt(pending, i) \o more

\* The awaiting handler goes on as soon as its request is answered.
Answer(i, s, a, more) ==
    /\ Commit(s, a, Rest(i, more), panels)
    /\ handling' = (handling /\ ~Awaited(pending[i]))
    /\ UNCHANGED <<interrupted, user>>

\* planJson has changed: App turns to the plan.
ToPlan(a) == [a EXCEPT !.view = "plan"]
ToEditor(a) == [mode |-> "edit", view |-> "plan"]

IndexAnswer(i) ==
    /\ pending[i].op = "index"
    /\ \E ok \in BOOLEAN :
          LET s == IndexAnswered(store, ok)
              p == pending[i].arg
              more == PlanRequests(s, p, "init")
          IN  IF pending[i].caller = "none"
              THEN Answer(i, s, app, <<>>)
              ELSE \* initHistory: now load the plan of the address
                   /\ Commit(LoadPlanByName(s, p), app, Rest(i, more), panels)
                   /\ handling' = (more # <<>>)
                   /\ UNCHANGED <<interrupted, user>>
    /\ UNCHANGED browser

PlanAnswer(i) ==
    /\ pending[i].op = "plan"
    /\ LET p == pending[i].arg
       IN  \/ /\ Answer(i, PlanArrived(store, p), ToPlan(app),
                        <<Request("source", p, "none")>>)
              /\ browser' = StorePush(browser, PlanUrl(p))
           \/ /\ Answer(i, PlanFailed(store), app, <<>>)
              /\ UNCHANGED browser

SourceAnswer(i) ==
    /\ pending[i].op = "source"
    /\ \E code \in {pending[i].arg, None} :
          Answer(i, SourceAnswered(store, code), app, <<>>)
    /\ UNCHANGED browser

\* loadRegistries catches its errors: who awaits it goes on either way.
RegistriesAnswer(i) ==
    /\ pending[i].op = "registries"
    /\ \E ok \in BOOLEAN :
          LET s == RegistriesAnswered(store, ok)
          IN  Answer(i, IF Awaited(pending[i]) THEN ShowRegistryUrl(s, pending[i].arg)
                                               ELSE s, app, <<>>)
    /\ UNCHANGED browser

\* handleFile after file.text(): a plan, or something else that is refused.
FileAnswer(i) ==
    /\ pending[i].op = "file"
    /\ LET p == pending[i].arg
       IN  \/ /\ Answer(i, LoadPlan(store, p), ToPlan(app), <<>>)
              /\ browser' = StorePush(browser, PlanUrl(p))
           \/ /\ Answer(i, store, app, <<>>)
              /\ UNCHANGED browser

\* handleEditPlanByName opens the editor whatever the answer is.
EditAnswer(i) ==
    /\ pending[i].op = "edit"
    /\ Answer(i, store, ToEditor(app), <<>>)
    /\ UNCHANGED browser

\* handleCompile: loadPlan with skipHistory, or an error the editor shows.
CompileAnswer(i) ==
    /\ pending[i].op = "compile"
    /\ \/ Answer(i, LoadPlan(store, Live), ToPlan(app), <<>>)
       \/ Answer(i, store, app, <<>>)
    /\ UNCHANGED browser

--------------------------------------------------------------------------------
(* App's navigation.  clearPlan pushes an entry of its own unless a        *)
(* popstate is being handled; the handler then pushes the one it wants.    *)

Leave(s, a, url, more) ==
    /\ UserActs
    /\ CanPush
    /\ browser' = PushState(StorePush(browser, HomeUrl), url)
    /\ Commit(s, a, pending \o more, panels)
    /\ Interrupt("leave")
    /\ UNCHANGED handling

\* handleGoHome and handleBrowsePlans.
BrowsePlans ==
    Leave(ClearPlan(store), [mode |-> "view", view |-> "home"], HomeUrl, <<>>)

BrowseRegistries ==
    LET s == ClearPlan(store)
        a == [mode |-> "view", view |-> "registries"]
        url == RegistryUrl(FirstTab, None)
    IN  IF HasRegistries(store)
        THEN Leave(s, a, url, <<>>)
        ELSE Leave(LoadRegistries(s), a, url, <<Request("registries", None, "none")>>)

Stay(s, a, more, ps) ==
    /\ UserActs
    /\ Commit(s, a, pending \o more, ps)
    /\ UNCHANGED <<browser, handling, interrupted>>

CreateNew == Stay(store, ToEditor(app), <<>>, panels)

EditCurrent ==
    /\ ShowPlanView(store, app)
    /\ app.mode = "view"
    /\ store.sourceCode # None
    /\ Stay(store, ToEditor(app), <<>>, panels)

\* The editor's button.  An editor that was closed and opened again compiles
\* anew while its first compilation is still in flight.
Compile ==
    /\ ShowPlanView(store, app)
    /\ app.mode = "edit"
    /\ Stay(store, app, <<Request("compile", Live, "none")>>, panels)

--------------------------------------------------------------------------------
(* The plan selector, the canvas and the registry viewer. *)

ClickPlan(p) ==
    /\ ShowHomePage(store, app)
    /\ store.planIndex /\ ~store.indexLoading
    /\ ~store.planLoading
    /\ Stay(LoadPlanByName(store, p), app, PlanRequests(store, p, "none"), panels)

EditPlan(p) ==
    /\ ShowHomePage(store, app)
    /\ store.planIndex /\ ~store.indexLoading
    /\ ~store.planLoading
    /\ Stay(store, app, <<Request("edit", p, "none")>>, panels)

DropFile(p) ==
    /\ ShowHomePage(store, app)
    /\ Stay(store, app, <<Request("file", p, "none")>>, panels)

\* A node under the pointer, or the background.
ClickCanvas ==
    /\ ShowPlanView(store, app)
    /\ store.planJson # None
    /\ \E n \in NodesOf[store.planJson] \cup {None} :
          Stay(SelectNode(store, n), app, <<>>, panels)

RegistryShown ==
    /\ ShowRegistries(app)
    /\ HasRegistries(store) /\ ~store.registriesLoading /\ ~store.registriesError

ClickTab(t) ==
    /\ RegistryShown
    /\ CanPush
    /\ UserActs
    /\ browser' = StorePush(browser, RegistryUrl(t, None))
    /\ Commit(SetRegistryTab(store, t), app, pending, panels)
    /\ UNCHANGED <<handling, interrupted>>

ClickEnv ==
    /\ RegistryShown
    /\ store.selectedRegistryTab = EndpointsTab
    /\ Stay(SetSelectedEndpointEnv(store), app, <<>>, panels)

Raise(ps, p) == Append(RemoveFirst(ps, p), p)

ClickRow(e) ==
    /\ RegistryShown
    /\ CanPush
    /\ UserActs
    /\ e \in EntriesOf[store.selectedRegistryTab]
    /\ browser' = StorePush(browser, RegistryUrl(store.selectedRegistryTab, e))
    /\ LET s == SetSelectedRegistryEntry(store, e)
       IN  Commit(s, app, pending, Raise(panels, Selected(s)))
    /\ UNCHANGED <<handling, interrupted>>

\* filter takes out the one panel the entry has.
ClosePanel(p) ==
    /\ RegistryShown
    /\ Stay(store, app, <<>>, RemoveFirst(panels, p))

DragPanel(p) ==
    /\ RegistryShown
    /\ Stay(store, app, <<>>, Raise(panels, p))

--------------------------------------------------------------------------------

Answers ==
    \E i \in DOMAIN pending :
        \/ IndexAnswer(i)
        \/ PlanAnswer(i)
        \/ SourceAnswer(i)
        \/ RegistriesAnswer(i)
        \/ FileAnswer(i)
        \/ EditAnswer(i)
        \/ CompileAnswer(i)

Next ==
    \/ Answers
    \/ PopState
    \/ Reload
    \/ BrowsePlans
    \/ BrowseRegistries
    \/ CreateNew
    \/ EditCurrent
    \/ Compile
    \/ \E p \in Plans : ClickPlan(p) \/ EditPlan(p)
    \/ \E p \in Files : DropFile(p)
    \/ ClickCanvas
    \/ \E t \in Tabs : ClickTab(t)
    \/ ClickEnv
    \/ \E e \in UNION {EntriesOf[t] : t \in Tabs} : ClickRow(e)
    \/ \E i \in DOMAIN panels : ClosePanel(panels[i]) \/ DragPanel(panels[i])

Spec == Init /\ [][Next]_vars

--------------------------------------------------------------------------------
(* Properties. *)

Waiting(op) == \E i \in DOMAIN pending : pending[i].op = op

\* An indicator that says "busy" has a request behind it that will clear it,
\* and so has the flag that keeps the history from being written.  A flag left
\* on would lock the plan selector, or stop recording the user's navigation.
BusyHasRequest ==
    /\ store.indexLoading => Waiting("index")
    /\ store.planLoading => Waiting("plan")
    /\ store.sourceLoading => Waiting("source")
    /\ store.registriesLoading => Waiting("registries")
    /\ handling => \E i \in DOMAIN pending : Awaited(pending[i])

\* When nothing that shows a plan is in flight, the plan of the address is the
\* one on the page, unless its load has reported an error or the editor has put
\* its own plan there: whatever order the answers of clicks, dropped files,
\* Back, Forward and the first load came in.  It takes a user who leaves while
\* Back, Forward or the first load is still awaited to break it.
UrlShowsPlan ==
    /\ Url.view = "plan"
    /\ ~Waiting("plan") /\ ~Waiting("index")
    /\ interrupted = {}
    => store.planJson \in {Url.plan, Live} \/ store.planError

\* The selected node is one of the graph on the page.
SelectionShown ==
    store.selectedNodeId # None =>
        /\ store.planJson # None
        /\ store.selectedNodeId \in NodesOf[store.planJson]

\* The selected registry entry, and the entry of each open panel, is one of its
\* tab, and no entry has two panels: late answers restore a tab and an entry
\* after the user may have turned to another tab.
PanelsSound ==
    LET entry(p) == p.id \in EntriesOf[p.tab]
    IN  /\ store.selectedRegistryEntry # None => entry(Selected(store))
        /\ \A i \in DOMAIN panels : entry(panels[i])
        /\ IsInjective(panels)

\* What the page shows hangs together: a registry page never has a plan behind
\* it, even when a load outlives the page that started it.
PageSound ==
    /\ ShowRegistries(app) => store.planJson = None
    /\ SelectionShown
    /\ PanelsSound

PopsPending(q) == Cardinality({i \in DOMAIN q : Awaited(q[i])})

\* An answer that the Back or Forward button waits for writes no history entry,
\* so the entries ahead stay there, as long as no second popstate comes before
\* the first has its answer.
PopKeepsHistory ==
    [][PopsPending(pending') < PopsPending(pending)
          => "pop" \in interrupted \/ browser' = browser]_vars

=============================================================================
