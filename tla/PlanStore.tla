------------------------------- MODULE PlanStore -------------------------------
(***************************************************************************)
(* The visualizer's store: what its actions do to the state, to the        *)
(* browser's history and to the requests that are in flight.  The actions  *)
(* are synchronous functions that component handlers call one after the    *)
(* other, so each is an operator on the state; module Visualizer composes  *)
(* them into steps.  A step ends where a handler awaits.                   *)
(*                                                                         *)
(* A plan is its name, a graph the set of its node identifiers, a file's   *)
(* or a response's contents are the name of what they hold.  The geometry  *)
(* of the view and the state of hovering and collapsing are left out.      *)
(***************************************************************************)
EXTENDS Naturals, Sequences, SequencesExt

CONSTANTS
    Plans,       \* the plans of the index
    Files,       \* the plan names found in files that are dropped
    Live,        \* the name of the plan the editor compiles
    NodesOf,     \* per plan, the nodes of its graph
    Tabs,        \* the registry tabs
    FirstTab,    \* 'keys'
    EndpointsTab, \* 'endpoints', whose entries are shown per environment
    EntriesOf,   \* per tab, the identifiers of its entries
    None         \* null

ASSUME StoreAssumption ==
    /\ {FirstTab, EndpointsTab} \subseteq Tabs
    /\ DOMAIN NodesOf = Plans \cup Files \cup {Live}
    /\ DOMAIN EntriesOf = Tabs
    /\ Live \notin Plans \cup Files

VARIABLES
    store,       \* the zustand store
    browser,     \* history entries and the one shown
    handling,    \* isHandlingPopState
    pending      \* the requests whose answer some code awaits, oldest first

--------------------------------------------------------------------------------
(* Addresses: ?plan=..., ?view=registries&tab=...&selected=..., or neither. *)

HomeUrl == [view |-> "home"]
PlanUrl(p) == [view |-> "plan", plan |-> p]
RegistryUrl(t, e) == [view |-> "registries", tab |-> t, selected |-> e]

Url == browser.entries[browser.at]

\* history.pushState: the entries ahead of the one shown are dropped.
PushState(b, url) ==
    [entries |-> Append(SubSeq(b.entries, 1, b.at), url), at |-> b.at + 1]

\* Mutant: the store pushes while a popstate is handled too.
StorePushAlways(b, url) == PushState(b, url)

\* What the store's own actions push: nothing while a popstate is handled.
StorePush(b, url) == IF handling THEN b ELSE PushState(b, url)

\* Who awaits a request: nobody, or the code that clears isHandlingPopState.
Request(op, arg, caller) == [op |-> op, arg |-> arg, caller |-> caller]

--------------------------------------------------------------------------------
(* The store's actions. *)

InitialStore ==
    [planIndex |-> FALSE, indexLoading |-> FALSE,
     planJson |-> None, planLoading |-> FALSE, planError |-> FALSE,
     sourceCode |-> None, sourceLoading |-> FALSE, selectedNodeId |-> None,
     registries |-> 0, registriesLoading |-> FALSE, registriesError |-> FALSE,
     selectedRegistryTab |-> FirstTab, selectedRegistryEntry |-> None]

LoadIndex(s) == [s EXCEPT !.indexLoading = TRUE]

\* A failed request leaves the index that is there.
IndexAnswered(s, ok) ==
    [s EXCEPT !.planIndex = @ \/ ok, !.indexLoading = FALSE]

\* loadPlanByName goes on to fetch only a plan of the index at hand.
Found(s, p) == s.planIndex /\ p \in Plans

LoadPlanByName(s, p) ==
    IF Found(s, p) THEN [s EXCEPT !.planLoading = TRUE, !.planError = FALSE]
                   ELSE [s EXCEPT !.planError = TRUE]

PlanRequests(s, p, caller) ==
    IF Found(s, p) THEN <<Request("plan", p, caller)>> ELSE <<>>

\* Mutant: loadPlan keeps the selected node of the former graph.
LoadPlanKeepsSelection(s, p) ==
    [s EXCEPT !.planJson = p, !.planError = FALSE]

\* loadPlan replaces the graph; the source and the loading flag stay.
LoadPlan(s, p) ==
    [s EXCEPT !.planJson = p, !.selectedNodeId = None, !.planError = FALSE]

LoadSource(s) == [s EXCEPT !.sourceLoading = TRUE]

PlanArrived(s, p) == LoadSource([LoadPlan(s, p) EXCEPT !.planLoading = FALSE])

\* Mutant: a failed load leaves the loading flag on.
PlanFailedStaysBusy(s) == [s EXCEPT !.planError = TRUE]

\* Mutant: a failed load reports no error.
PlanFailedSilently(s) == [s EXCEPT !.planLoading = FALSE]

PlanFailed(s) == [s EXCEPT !.planError = TRUE, !.planLoading = FALSE]

SourceAnswered(s, code) ==
    [s EXCEPT !.sourceCode = code, !.sourceLoading = FALSE]

\* clearPlan leaves the loading flag and the requests in flight alone.
ClearPlan(s) ==
    [s EXCEPT !.planJson = None, !.selectedNodeId = None, !.sourceCode = None]

SelectNode(s, n) == [s EXCEPT !.selectedNodeId = n]

HasRegistries(s) == s.registries # 0

LoadRegistries(s) ==
    [s EXCEPT !.registriesLoading = TRUE, !.registriesError = FALSE]

\* The eight fetches of Promise.all and the checks after it: all or nothing.
\* An answer does not undo the error that an overlapping request has left.  Each
\* answer makes a new object, which React tells from the former one: 1 and 2.
RegistriesAnswered(s, ok) ==
    [s EXCEPT !.registries = IF ok THEN 1 + (@ % 2) ELSE @,
              !.registriesError = @ \/ ~ok,
              !.registriesLoading = FALSE]

SetRegistryTab(s, t) ==
    [s EXCEPT !.selectedRegistryTab = t, !.selectedRegistryEntry = None]

SetSelectedRegistryEntry(s, e) == [s EXCEPT !.selectedRegistryEntry = e]

\* Which environment is shown is left out; the selection goes.
SetSelectedEndpointEnv(s) == [s EXCEPT !.selectedRegistryEntry = None]

\* What popstate and the first load set from an address, both fields at once.
ShowRegistryUrl(s, url) ==
    [s EXCEPT !.selectedRegistryTab = url.tab,
              !.selectedRegistryEntry = url.selected]

=============================================================================
