-------------------------- MODULE Visualizer_proofs --------------------------
(***************************************************************************)
(* Proofs about Visualizer, for any plans, files, registries and bounds.   *)
(***************************************************************************)
EXTENDS Visualizer, SequenceTheorems, FiniteSetTheorems, TLAPS

-----------------------------------------------------------------------------
(***************************************************************************)
(* Values: what an address, a request and the store can be.                *)
(***************************************************************************)
Entries == UNION {EntriesOf[t] : t \in Tabs}
Nodes == UNION {NodesOf[p] : p \in DOMAIN NodesOf}

RegistryUrls ==
    {u \in [view : {"registries"}, tab : Tabs, selected : Entries \cup {None}] :
       u.selected # None => u.selected \in EntriesOf[u.tab]}
PlanUrls == [view : {"plan"}, plan : Plans \cup Files]
Urls == {HomeUrl} \cup PlanUrls \cup RegistryUrls

Reqs ==
    {r \in [op : {"index", "plan", "source", "registries", "file", "edit", "compile"},
            arg : Plans \cup Files \cup Urls \cup {Live, None},
            caller : {"none", "init", "pop"}] :
       /\ r.op \in {"plan", "source"} => r.arg \in Plans
       /\ r.op = "file" => r.arg \in Files
       /\ Awaited(r) => \/ r.op = "index" /\ r.arg \in Plans \cup Files
                        \/ r.op = "plan"
                        \/ r.op = "registries" /\ r.arg \in RegistryUrls}

Stores ==
    [planIndex : BOOLEAN, indexLoading : BOOLEAN,
     planJson : DOMAIN NodesOf \cup {None}, planLoading : BOOLEAN, planError : BOOLEAN,
     sourceCode : Plans \cup {None}, sourceLoading : BOOLEAN,
     selectedNodeId : Nodes \cup {None},
     registries : 0..2, registriesLoading : BOOLEAN, registriesError : BOOLEAN,
     selectedRegistryTab : Tabs, selectedRegistryEntry : Entries \cup {None}]

Apps == [mode : {"view", "edit"}, view : {"home", "plan", "registries"}]

PanelSet == {p \in [id : Entries, tab : Tabs] : p.id \in EntriesOf[p.tab]}

\* What a store and a page on it promise.
Sound(s, a) ==
    /\ s \in Stores
    /\ a \in Apps
    /\ a.view = "registries" => s.planJson = None
    /\ s.selectedNodeId # None =>
          s.planJson # None /\ s.selectedNodeId \in NodesOf[s.planJson]
    /\ s.selectedRegistryEntry # None =>
          s.selectedRegistryEntry \in EntriesOf[s.selectedRegistryTab]

SoundPanels(ps) == ps \in Seq(PanelSet) /\ IsInjective(ps)

SoundBrowser(b) ==
    b \in [entries : Seq(Urls), at : Nat] /\ b.at \in 1..Len(b.entries)

PageInv ==
    /\ Sound(store, app)
    /\ SoundPanels(panels)
    /\ SoundBrowser(browser)
    /\ handling \in BOOLEAN
    /\ pending \in Seq(Reqs)

-----------------------------------------------------------------------------
(***************************************************************************)
(* Sequences.                                                              *)
(***************************************************************************)

\* The request that is answered goes, those after it move up, what it asks for
\* next comes last.
Swap(q, i, more) == RemoveAt(q, i) \o more

LEMMA RestAt ==
    ASSUME NEW S, NEW q \in Seq(S), NEW i \in 1..Len(q), NEW more \in Seq(S)
    PROVE  /\ Swap(q, i, more) \in Seq(S)
           /\ Len(q) \in Nat /\ Len(more) \in Nat
           /\ Len(Swap(q, i, more)) = Len(q) - 1 + Len(more)
           /\ \A k \in 1..(i - 1) : Swap(q, i, more)[k] = q[k]
           /\ \A k \in i..(Len(q) - 1) : Swap(q, i, more)[k] = q[k + 1]
           /\ \A k \in 1..Len(more) : Swap(q, i, more)[k + (Len(q) - 1)] = more[k]
<1> DEFINE a == SubSeq(q, 1, i - 1)
           b == SubSeq(q, i + 1, Len(q))
<1>1. Len(q) \in Nat /\ Len(more) \in Nat
  BY LenProperties
<1>2. a \in Seq(S) /\ Len(a) = i - 1 /\ \A k \in 1..(i - 1) : a[k] = q[k]
  BY <1>1, SubSeqProperties
<1>3. b \in Seq(S) /\ Len(b) = Len(q) - i /\ \A k \in 1..(Len(q) - i) : b[k] = q[i + k]
  BY <1>1, SubSeqProperties
<1> DEFINE c == a \o b
<1>4. RemoveAt(q, i) = c
  BY DEF RemoveAt
<1> HIDE DEF a, b
<1>5. /\ c \in Seq(S) /\ Len(c) = Len(q) - 1
      /\ \A k \in 1..(i - 1) : c[k] = q[k]
      /\ \A k \in i..(Len(q) - 1) : c[k] = q[k + 1]
  <2>1. c \in Seq(S) /\ Len(c) = Len(a) + Len(b)
    BY <1>2, <1>3, ConcatProperties
  <2>2. \A k \in 1..(Len(a) + Len(b)) :
          c[k] = IF k <= Len(a) THEN a[k] ELSE b[k - Len(a)]
    BY <1>2, <1>3, ConcatProperties
  <2>3. \A k \in 1..(i - 1) : c[k] = q[k]
    BY <1>1, <1>2, <1>3, <2>2
  <2>4. ASSUME NEW k \in i..(Len(q) - 1)
        PROVE  c[k] = q[k + 1]
    <3>1. k \in 1..(Len(a) + Len(b)) /\ ~(k <= Len(a)) /\ k - Len(a) \in 1..(Len(q) - i)
      BY <1>1, <1>2, <1>3
    <3>2. i + (k - Len(a)) = k + 1
      BY <1>1, <1>2
    <3>3. c[k] = b[k - Len(a)]
      BY <2>2, <3>1
    <3>4. b[k - Len(a)] = q[i + (k - Len(a))]
      BY <1>3, <3>1
    <3> QED BY <3>2, <3>3, <3>4
  <2>5. Len(a) + Len(b) = Len(q) - 1
    BY <1>1, <1>2, <1>3
  <2> QED BY <2>1, <2>3, <2>4, <2>5
<1> HIDE DEF c
<1> DEFINE r == c \o more
<1>0. Swap(q, i, more) = r
  BY <1>4 DEF Swap
<1>6. r \in Seq(S) /\ Len(r) = Len(q) - 1 + Len(more)
  BY <1>1, <1>5, ConcatProperties
<1>7. \A k \in 1..(Len(c) + Len(more)) :
        r[k] = IF k <= Len(c) THEN c[k] ELSE more[k - Len(c)]
  BY <1>5, ConcatProperties
<1>8. \A k \in 1..(i - 1) : r[k] = q[k]
  BY <1>1, <1>5, <1>6, <1>7
<1>9. \A k \in i..(Len(q) - 1) : r[k] = q[k + 1]
  <2> SUFFICES ASSUME NEW k \in i..(Len(q) - 1)
               PROVE  r[k] = q[k + 1]
    OBVIOUS
  <2>1. k \in 1..(Len(c) + Len(more)) /\ k <= Len(c)
    BY <1>1, <1>5
  <2> QED BY <1>5, <1>7, <2>1
<1>10. ASSUME NEW k \in 1..Len(more)
       PROVE  r[k + (Len(q) - 1)] = more[k]
  <2>1. k + (Len(q) - 1) \in 1..(Len(c) + Len(more)) /\ ~(k + (Len(q) - 1) <= Len(c))
    BY <1>1, <1>5
  <2>2. k + (Len(q) - 1) - Len(c) = k
    BY <1>1, <1>5
  <2> QED BY <1>1, <1>5, <1>6, <1>7, <2>1, <2>2
<1> QED BY <1>0, <1>1, <1>6, <1>8, <1>9, <1>10

\* The same for what is in the sequence.
Swapped(q, i, more, r) ==
    /\ \A k \in (1..Len(q)) \ {i} : \E l \in 1..Len(r) : r[l] = q[k]
    /\ \A k \in 1..Len(more) : \E l \in 1..Len(r) : r[l] = more[k]
    /\ \A l \in 1..Len(r) : \/ \E k \in 1..Len(q) : k # i /\ r[l] = q[k]
                            \/ \E k \in 1..Len(more) : r[l] = more[k]

LEMMA SwapMembers ==
    ASSUME NEW S, NEW q \in Seq(S), NEW i \in 1..Len(q), NEW more \in Seq(S)
    PROVE  Swap(q, i, more) \in Seq(S) /\ Swapped(q, i, more, Swap(q, i, more))
<1> DEFINE r == Swap(q, i, more)
<1>1. /\ r \in Seq(S)
      /\ Len(q) \in Nat /\ Len(more) \in Nat
      /\ Len(r) = Len(q) - 1 + Len(more)
      /\ \A k \in 1..(i - 1) : r[k] = q[k]
      /\ \A k \in i..(Len(q) - 1) : r[k] = q[k + 1]
      /\ \A k \in 1..Len(more) : r[k + (Len(q) - 1)] = more[k]
  <2>1. /\ r \in Seq(S)
        /\ Len(q) \in Nat /\ Len(more) \in Nat
        /\ Len(r) = Len(q) - 1 + Len(more)
    BY RestAt
  <2>2. \A k \in 1..(i - 1) : r[k] = q[k]
    BY RestAt
  <2>3. \A k \in i..(Len(q) - 1) : r[k] = q[k + 1]
    BY RestAt
  <2>4. \A k \in 1..Len(more) : r[k + (Len(q) - 1)] = more[k]
    BY RestAt
  <2> QED BY <2>1, <2>2, <2>3, <2>4
<1>2. ASSUME NEW k \in 1..Len(q), k # i
      PROVE  \E l \in 1..Len(r) : r[l] = q[k]
  <2>1. CASE k < i
    <3>1. k \in 1..(i - 1) /\ k \in 1..Len(r)
      BY <1>1, <2>1
    <3> QED BY <1>1, <3>1
  <2>2. CASE k > i
    <3>1. k - 1 \in i..(Len(q) - 1) /\ k - 1 \in 1..Len(r) /\ (k - 1) + 1 = k
      BY <1>1, <2>2
    <3> QED BY <1>1, <3>1
  <2> QED BY <1>1, <1>2, <2>1, <2>2
<1>3. ASSUME NEW k \in 1..Len(more)
      PROVE  \E l \in 1..Len(r) : r[l] = more[k]
  <2>1. k + (Len(q) - 1) \in 1..Len(r)
    BY <1>1
  <2> QED BY <1>1, <2>1
<1>4. ASSUME NEW l \in 1..Len(r)
      PROVE  \/ \E k \in 1..Len(q) : k # i /\ r[l] = q[k]
             \/ \E k \in 1..Len(more) : r[l] = more[k]
  <2>1. CASE l < i
    <3>1. l \in 1..(i - 1) /\ l \in 1..Len(q) /\ l # i
      BY <1>1, <2>1
    <3> QED BY <1>1, <3>1
  <2>2. CASE l >= i /\ l <= Len(q) - 1
    <3>1. l \in i..(Len(q) - 1) /\ l + 1 \in 1..Len(q) /\ l + 1 # i
      BY <1>1, <2>2
    <3> QED BY <1>1, <3>1
  <2>3. CASE l > Len(q) - 1
    <3> DEFINE k == l - (Len(q) - 1)
    <3>1. k \in 1..Len(more) /\ k + (Len(q) - 1) = l
      BY <1>1, <2>3
    <3> QED BY <1>1, <3>1
  <2> QED BY <1>1, <2>1, <2>2, <2>3
<1> QED BY <1>1, <1>2, <1>3, <1>4 DEF Swapped

LEMMA RestMembers ==
    ASSUME NEW S, NEW q \in Seq(S), NEW i \in 1..Len(q), NEW more \in Seq(S)
    PROVE  /\ Swap(q, i, more) \in Seq(S)
           /\ \A k \in (1..Len(q)) \ {i} : \E l \in 1..Len(Swap(q, i, more)) : Swap(q, i, more)[l] = q[k]
           /\ \A k \in 1..Len(more) : \E l \in 1..Len(Swap(q, i, more)) : Swap(q, i, more)[l] = more[k]
           /\ \A l \in 1..Len(Swap(q, i, more)) : \/ \E k \in 1..Len(q) : k # i /\ Swap(q, i, more)[l] = q[k]
                                                  \/ \E k \in 1..Len(more) : Swap(q, i, more)[l] = more[k]
<1> DEFINE r == Swap(q, i, more)
<1>1. r \in Seq(S) /\ Swapped(q, i, more, r)
  BY SwapMembers
<1> HIDE DEF r
<1>2. /\ r \in Seq(S)
      /\ \A k \in (1..Len(q)) \ {i} : \E l \in 1..Len(r) : r[l] = q[k]
      /\ \A k \in 1..Len(more) : \E l \in 1..Len(r) : r[l] = more[k]
      /\ \A l \in 1..Len(r) : \/ \E k \in 1..Len(q) : k # i /\ r[l] = q[k]
                              \/ \E k \in 1..Len(more) : r[l] = more[k]
  BY <1>1 DEF Swapped
<1> QED BY <1>2, Zenon DEF r

\* A sequence with others after it.
Joined(q, more, r) ==
    /\ Len(q) \in Nat /\ Len(more) \in Nat /\ Len(r) = Len(q) + Len(more)
    /\ \A k \in 1..Len(q) : k \in 1..Len(r) /\ r[k] = q[k]
    /\ \A k \in 1..Len(more) : k + Len(q) \in 1..Len(r) /\ r[k + Len(q)] = more[k]
    /\ \A l \in 1..Len(r) : \/ l \in 1..Len(q) /\ r[l] = q[l]
                            \/ \E k \in 1..Len(more) : l = k + Len(q) /\ r[l] = more[k]

LEMMA ConcatJoins ==
    ASSUME NEW S, NEW q \in Seq(S), NEW more \in Seq(S)
    PROVE  q \o more \in Seq(S) /\ Joined(q, more, q \o more)
<1> DEFINE r == q \o more
<1>1. /\ r \in Seq(S) /\ Len(q) \in Nat /\ Len(more) \in Nat
      /\ Len(r) = Len(q) + Len(more)
  BY ConcatProperties, LenProperties
<1>2. \A k \in 1..(Len(q) + Len(more)) :
        r[k] = IF k <= Len(q) THEN q[k] ELSE more[k - Len(q)]
  BY ConcatProperties
<1>3. ASSUME NEW k \in 1..Len(q)
      PROVE  k \in 1..Len(r) /\ r[k] = q[k]
  BY <1>1, <1>2
<1>4. ASSUME NEW k \in 1..Len(more)
      PROVE  k + Len(q) \in 1..Len(r) /\ r[k + Len(q)] = more[k]
  <2>1. k + Len(q) \in 1..Len(r) /\ ~(k + Len(q) <= Len(q)) /\ k + Len(q) - Len(q) = k
    BY <1>1
  <2> QED BY <1>1, <1>2, <2>1
<1>5. ASSUME NEW l \in 1..Len(r)
      PROVE  \/ l \in 1..Len(q) /\ r[l] = q[l]
             \/ \E k \in 1..Len(more) : l = k + Len(q) /\ r[l] = more[k]
  <2>1. CASE l <= Len(q)
    <3>1. l \in 1..Len(q)
      BY <1>1, <2>1
    <3> QED BY <1>3, <3>1
  <2>2. CASE l > Len(q)
    <3> DEFINE k == l - Len(q)
    <3>1. k \in 1..Len(more) /\ k + Len(q) = l
      BY <1>1, <2>2
    <3>2. r[k + Len(q)] = more[k]
      BY <1>4, <3>1
    <3> QED BY <3>1, <3>2
  <2> QED BY <1>1, <2>1, <2>2
<1> QED BY <1>1, <1>3, <1>4, <1>5 DEF Joined

LEMMA ConcatMembers ==
    ASSUME NEW S, NEW q \in Seq(S), NEW more \in Seq(S)
    PROVE  /\ q \o more \in Seq(S)
           /\ Len(q) \in Nat /\ Len(more) \in Nat /\ Len(q \o more) = Len(q) + Len(more)
           /\ \A k \in 1..Len(q) : k \in 1..Len(q \o more) /\ (q \o more)[k] = q[k]
           /\ \A k \in 1..Len(more) : k + Len(q) \in 1..Len(q \o more) /\ (q \o more)[k + Len(q)] = more[k]
           /\ \A l \in 1..Len(q \o more) : \/ l \in 1..Len(q) /\ (q \o more)[l] = q[l]
                                   \/ \E k \in 1..Len(more) : l = k + Len(q) /\ (q \o more)[l] = more[k]
BY ConcatJoins DEF Joined

-----------------------------------------------------------------------------
(***************************************************************************)
(* The store's actions, field by field.                                    *)
(***************************************************************************)

\* What the page shows of a store.
Page(s) == <<s.planJson, s.selectedNodeId, s.selectedRegistryTab, s.selectedRegistryEntry>>

\* The indicators.
Flags(s) == <<s.indexLoading, s.planLoading, s.sourceLoading, s.registriesLoading>>

LEMMA InitialStoreFields ==
    /\ InitialStore \in Stores
    /\ InitialStore.planJson = None /\ InitialStore.selectedNodeId = None
    /\ InitialStore.selectedRegistryEntry = None
    /\ Flags(InitialStore) = <<FALSE, FALSE, FALSE, FALSE>>
BY StoreAssumption DEF InitialStore, Stores, Flags

LEMMA LoadIndexFields ==
    ASSUME NEW s \in Stores
    PROVE  /\ LoadIndex(s) \in Stores /\ Page(LoadIndex(s)) = Page(s)
           /\ Flags(LoadIndex(s)) =
                <<TRUE, s.planLoading, s.sourceLoading, s.registriesLoading>>
           /\ LoadIndex(s).planError = s.planError
BY DEF LoadIndex, Stores, Page, Flags

LEMMA IndexAnsweredFields ==
    ASSUME NEW s \in Stores, NEW ok \in BOOLEAN, NEW t, t = IndexAnswered(s, ok)
    PROVE  /\ t \in Stores /\ Page(t) = Page(s)
           /\ Flags(t) = <<FALSE, s.planLoading, s.sourceLoading, s.registriesLoading>>
           /\ t.planError = s.planError
BY DEF IndexAnswered, Stores, Page, Flags

LEMMA LoadPlanByNameFields ==
    ASSUME NEW s \in Stores, NEW p, NEW t, t = LoadPlanByName(s, p)
    PROVE  /\ t \in Stores /\ Page(t) = Page(s)
           /\ Flags(t) = <<s.indexLoading, s.planLoading \/ Found(s, p), s.sourceLoading,
                           s.registriesLoading>>
           /\ t.planError = ~Found(s, p)
<1>1. Found(s, p) \in BOOLEAN
  BY DEF Found, Stores
<1>2. CASE Found(s, p)
  BY <1>2 DEF LoadPlanByName, Stores, Page, Flags
<1>3. CASE ~Found(s, p)
  BY <1>3 DEF LoadPlanByName, Stores, Page, Flags
<1> QED BY <1>1, <1>2, <1>3

LEMMA LoadPlanFields ==
    ASSUME NEW s \in Stores, NEW p \in DOMAIN NodesOf, NEW t, t = LoadPlan(s, p)
    PROVE  /\ t \in Stores
           /\ Page(t) = <<p, None, s.selectedRegistryTab, s.selectedRegistryEntry>>
           /\ Flags(t) = Flags(s)
           /\ t.planError = FALSE
BY DEF LoadPlan, Stores, Page, Flags

LEMMA PlanArrivedFields ==
    ASSUME NEW s \in Stores, NEW p \in DOMAIN NodesOf, NEW t, t = PlanArrived(s, p)
    PROVE  /\ t \in Stores
           /\ Page(t) = <<p, None, s.selectedRegistryTab, s.selectedRegistryEntry>>
           /\ Flags(t) = <<s.indexLoading, FALSE, TRUE, s.registriesLoading>>
           /\ t.planError = FALSE
BY DEF PlanArrived, LoadSource, LoadPlan, Stores, Page, Flags

LEMMA PlanFailedFields ==
    ASSUME NEW s \in Stores, NEW t, t = PlanFailed(s)
    PROVE  /\ t \in Stores /\ Page(t) = Page(s)
           /\ Flags(t) = <<s.indexLoading, FALSE, s.sourceLoading, s.registriesLoading>>
           /\ t.planError = TRUE
BY DEF PlanFailed, Stores, Page, Flags

LEMMA SourceAnsweredFields ==
    ASSUME NEW s \in Stores, NEW code \in Plans \cup {None}, NEW t,
           t = SourceAnswered(s, code)
    PROVE  /\ t \in Stores /\ Page(t) = Page(s)
           /\ Flags(t) = <<s.indexLoading, s.planLoading, FALSE, s.registriesLoading>>
           /\ t.planError = s.planError
BY DEF SourceAnswered, Stores, Page, Flags

LEMMA ClearPlanFields ==
    ASSUME NEW s \in Stores, NEW t, t = ClearPlan(s)
    PROVE  /\ t \in Stores
           /\ Page(t) = <<None, None, s.selectedRegistryTab, s.selectedRegistryEntry>>
           /\ Flags(t) = Flags(s)
           /\ t.planError = s.planError
           /\ t.registries = s.registries
BY DEF ClearPlan, Stores, Page, Flags

LEMMA SelectNodeFields ==
    ASSUME NEW s \in Stores, NEW n \in Nodes \cup {None}, NEW t, t = SelectNode(s, n)
    PROVE  /\ t \in Stores
           /\ Page(t) = <<s.planJson, n, s.selectedRegistryTab, s.selectedRegistryEntry>>
           /\ Flags(t) = Flags(s)
           /\ t.planError = s.planError
BY DEF SelectNode, Stores, Page, Flags

LEMMA LoadRegistriesFields ==
    ASSUME NEW s \in Stores, NEW t, t = LoadRegistries(s)
    PROVE  /\ t \in Stores /\ Page(t) = Page(s)
           /\ Flags(t) = <<s.indexLoading, s.planLoading, s.sourceLoading, TRUE>>
           /\ t.planError = s.planError
BY DEF LoadRegistries, Stores, Page, Flags

LEMMA RegistriesAnsweredFields ==
    ASSUME NEW s \in Stores, NEW ok \in BOOLEAN, NEW t, t = RegistriesAnswered(s, ok)
    PROVE  /\ t \in Stores /\ Page(t) = Page(s)
           /\ Flags(t) = <<s.indexLoading, s.planLoading, s.sourceLoading, FALSE>>
           /\ t.planError = s.planError
<1>1. s.registries \in 0..2
  BY DEF Stores
<1>2. 1 + (s.registries % 2) \in 0..2
  BY <1>1
<1>3. (s.registriesError \/ ~ok) \in BOOLEAN
  OBVIOUS
<1>4. CASE ok = TRUE
  <2>1. t = [s EXCEPT !.registries = 1 + (s.registries % 2),
                      !.registriesError = (s.registriesError \/ ~ok),
                      !.registriesLoading = FALSE]
    BY <1>4 DEF RegistriesAnswered
  <2> QED BY <1>2, <1>3, <2>1 DEF Stores, Page, Flags
<1>5. CASE ok = FALSE
  <2>1. t = [s EXCEPT !.registries = s.registries,
                      !.registriesError = (s.registriesError \/ ~ok),
                      !.registriesLoading = FALSE]
    BY <1>5 DEF RegistriesAnswered
  <2> QED BY <1>1, <1>3, <2>1 DEF Stores, Page, Flags
<1> QED BY <1>4, <1>5

\* Tab and entry, from an address or one of them by a click.
LEMMA ShowRegistryUrlFields ==
    ASSUME NEW s \in Stores, NEW url \in RegistryUrls, NEW t, t = ShowRegistryUrl(s, url)
    PROVE  /\ t \in Stores
           /\ Page(t) = <<s.planJson, s.selectedNodeId, url.tab, url.selected>>
           /\ Flags(t) = Flags(s)
           /\ t.planError = s.planError
BY DEF ShowRegistryUrl, Stores, Page, Flags, RegistryUrls

LEMMA SetRegistryTabFields ==
    ASSUME NEW s \in Stores, NEW tab \in Tabs, NEW t, t = SetRegistryTab(s, tab)
    PROVE  /\ t \in Stores
           /\ Page(t) = <<s.planJson, s.selectedNodeId, tab, None>>
           /\ Flags(t) = Flags(s)
           /\ t.planError = s.planError
BY DEF SetRegistryTab, Stores, Page, Flags

LEMMA SetEntryFields ==
    ASSUME NEW s \in Stores, NEW e \in Entries \cup {None}, NEW t,
           t = SetSelectedRegistryEntry(s, e)
    PROVE  /\ t \in Stores
           /\ Page(t) = <<s.planJson, s.selectedNodeId, s.selectedRegistryTab, e>>
           /\ Flags(t) = Flags(s)
           /\ t.planError = s.planError
BY DEF SetSelectedRegistryEntry, Stores, Page, Flags

LEMMA SetEnvFields ==
    ASSUME NEW s \in Stores, NEW t, t = SetSelectedEndpointEnv(s)
    PROVE  /\ t \in Stores
           /\ Page(t) = <<s.planJson, s.selectedNodeId, s.selectedRegistryTab, None>>
           /\ Flags(t) = Flags(s)
           /\ t.planError = s.planError
BY DEF SetSelectedEndpointEnv, Stores, Page, Flags

-----------------------------------------------------------------------------
(***************************************************************************)
(* Addresses and requests.                                                 *)
(***************************************************************************)
LEMMA UrlFacts ==
    /\ HomeUrl \in Urls /\ HomeUrl.view = "home"
    /\ \A p \in Plans \cup Files :
          PlanUrl(p) \in Urls /\ PlanUrl(p).view = "plan" /\ PlanUrl(p).plan = p
    /\ \A t \in Tabs, e \in Entries \cup {None} :
          (e # None => e \in EntriesOf[t]) =>
             RegistryUrl(t, e) \in RegistryUrls /\ RegistryUrl(t, e) \in Urls
    /\ \A t \in Tabs, e \in Entries \cup {None} : RegistryUrl(t, e).view = "registries"
BY DEF Urls, PlanUrls, RegistryUrls, HomeUrl, PlanUrl, RegistryUrl

LEMMA UrlCases ==
    ASSUME NEW url \in Urls
    PROVE  /\ url.view \in {"home", "plan", "registries"}
           /\ url.view = "plan" => url.plan \in Plans \cup Files /\ url = PlanUrl(url.plan)
           /\ url.view = "registries" => url \in RegistryUrls
BY DEF Urls, PlanUrls, RegistryUrls, HomeUrl, PlanUrl

LEMMA RequestFields ==
    ASSUME NEW op, NEW arg, NEW caller
    PROVE  /\ Request(op, arg, caller).op = op
           /\ Request(op, arg, caller).arg = arg
           /\ Request(op, arg, caller).caller = caller
BY DEF Request

LEMMA RequestFacts ==
    /\ Request("index", None, "none") \in Reqs
    /\ \A p \in Plans \cup Files : Request("index", p, "init") \in Reqs
    /\ \A p \in Plans, c \in {"none", "init", "pop"} : Request("plan", p, c) \in Reqs
    /\ \A p \in Plans : Request("source", p, "none") \in Reqs
    /\ \A p \in Plans : Request("edit", p, "none") \in Reqs
    /\ \A p \in Files : Request("file", p, "none") \in Reqs
    /\ Request("compile", Live, "none") \in Reqs
    /\ Request("registries", None, "none") \in Reqs
    /\ \A u \in RegistryUrls, c \in {"init", "pop"} : Request("registries", u, c) \in Reqs
BY DEF Reqs, Request, Awaited, Urls

\* The plan that is asked for, if the index has it.
LEMMA PlanRequestsFacts ==
    ASSUME NEW s, NEW p, NEW c \in {"none", "init", "pop"}
    PROVE  /\ PlanRequests(s, p, c) \in Seq(Reqs)
           /\ Found(s, p) => /\ PlanRequests(s, p, c) = <<Request("plan", p, c)>>
                             /\ p \in Plans
           /\ ~Found(s, p) => PlanRequests(s, p, c) = <<>>
BY RequestFacts DEF PlanRequests, Found

\* history.pushState shows the address it pushes.
LEMMA PushSound ==
    ASSUME NEW b, SoundBrowser(b), NEW url \in Urls
    PROVE  /\ SoundBrowser(PushState(b, url))
           /\ PushState(b, url).entries[PushState(b, url).at] = url
<1> DEFINE front == SubSeq(b.entries, 1, b.at)
<1>1. b.entries \in Seq(Urls) /\ b.at \in 1..Len(b.entries) /\ Len(b.entries) \in Nat
  BY LenProperties DEF SoundBrowser
<1>2. front \in Seq(Urls) /\ Len(front) = b.at
  BY <1>1, SubSeqProperties
<1> HIDE DEF front
<1>3. /\ Append(front, url) \in Seq(Urls) /\ Len(Append(front, url)) = b.at + 1
      /\ Append(front, url)[b.at + 1] = url
  BY <1>1, <1>2, AppendProperties
<1>4. PushState(b, url) = [entries |-> Append(front, url), at |-> b.at + 1]
  BY DEF PushState, front
<1> QED BY <1>1, <1>3, <1>4 DEF SoundBrowser

LEMMA StorePushSound ==
    ASSUME NEW b, SoundBrowser(b), NEW url \in Urls
    PROVE  SoundBrowser(StorePush(b, url))
BY PushSound DEF StorePush

-----------------------------------------------------------------------------
(***************************************************************************)
(* The panels: each way to change them keeps them distinct.                *)
(***************************************************************************)
LEMMA NoPanels == SoundPanels(<<>>)
BY DEF SoundPanels, IsInjective

LEMMA AppendPanel ==
    ASSUME NEW ps, SoundPanels(ps), NEW p \in PanelSet,
           \A i \in 1..Len(ps) : ps[i] # p
    PROVE  SoundPanels(Append(ps, p))
<1>1. ps \in Seq(PanelSet) /\ Len(ps) \in Nat /\ DOMAIN ps = 1..Len(ps)
  BY LenProperties DEF SoundPanels
<1> DEFINE r == Append(ps, p)
<1>2. /\ r \in Seq(PanelSet) /\ Len(r) = Len(ps) + 1 /\ DOMAIN r = 1..Len(r)
      /\ r[Len(ps) + 1] = p /\ \A i \in 1..Len(ps) : r[i] = ps[i]
  BY <1>1, AppendProperties
<1> HIDE DEF r
<1>3. ASSUME NEW i \in 1..Len(r), NEW j \in 1..Len(r), r[i] = r[j]
      PROVE  i = j
  <2>1. CASE i \in 1..Len(ps) /\ j \in 1..Len(ps)
    BY <1>1, <1>2, <1>3, <2>1 DEF SoundPanels, IsInjective
  <2>2. CASE i = Len(ps) + 1 /\ j \in 1..Len(ps)
    BY <1>2, <1>3, <2>2
  <2>3. CASE j = Len(ps) + 1 /\ i \in 1..Len(ps)
    BY <1>2, <1>3, <2>3
  <2> QED BY <1>1, <1>2, <2>1, <2>2, <2>3
<1>4. SoundPanels(r)
  BY <1>2, <1>3 DEF SoundPanels, IsInjective
<1> QED BY <1>4 DEF r

\* Taking the panel of an entry out leaves none for it.
LEMMA RemovePanel ==
    ASSUME NEW ps, SoundPanels(ps), NEW p
    PROVE  /\ SoundPanels(RemoveFirst(ps, p))
           /\ \A i \in 1..Len(RemoveFirst(ps, p)) : RemoveFirst(ps, p)[i] # p
<1>1. ps \in Seq(PanelSet) /\ Len(ps) \in Nat /\ DOMAIN ps = 1..Len(ps)
  BY LenProperties DEF SoundPanels
<1>2. CASE \A i \in 1..Len(ps) : ps[i] # p
  BY <1>2 DEF RemoveFirst
<1>3. CASE \E i \in 1..Len(ps) : ps[i] = p
  <2> DEFINE I == {i \in 1..Len(ps) : ps[i] = p}
             m == SelectInSeq(ps, LAMBDA v : v = p)
  <2>1. PICK n \in 1..Len(ps) : ps[n] = p
    BY <1>3
  <2>2. I = {n}
    BY <1>1, <2>1 DEF SoundPanels, IsInjective
  <2>3. m = n
    <3>1. m = IF I # {} THEN Min(I) ELSE 0
      BY DEF SelectInSeq
    <3>2. Min({n}) = n
      BY <2>1 DEF Min
    <3> QED BY <2>2, <3>1, <3>2
  <2> DEFINE nil == <<>>
             r == Swap(ps, n, nil)
  <2>4. RemoveFirst(ps, p) = RemoveAt(ps, n)
    BY <1>3, <2>3 DEF RemoveFirst
  <2>5. RemoveAt(ps, n) \in Seq(PanelSet)
    BY <1>1, SubSeqProperties, ConcatProperties DEF RemoveAt
  <2>6. r = RemoveAt(ps, n)
    BY <2>5, ConcatEmptySeq DEF Swap
  <2>7. /\ r \in Seq(PanelSet) /\ Len(r) = Len(ps) - 1
        /\ \A k \in 1..(n - 1) : r[k] = ps[k]
        /\ \A k \in n..(Len(ps) - 1) : r[k] = ps[k + 1]
    <3>1. nil \in Seq(PanelSet) /\ Len(nil) = 0
      OBVIOUS
    <3> HIDE DEF nil
    <3>0. ps \in Seq(PanelSet) /\ n \in 1..Len(ps) /\ nil \in Seq(PanelSet)
      BY <1>1, <3>1
    <3>2. r \in Seq(PanelSet) /\ Len(r) = Len(ps) - 1 + Len(nil)
      BY <3>0, RestAt
    <3>3. \A k \in 1..(n - 1) : r[k] = ps[k]
      BY <3>0, RestAt
    <3>4. \A k \in n..(Len(ps) - 1) : r[k] = ps[k + 1]
      BY <3>0, RestAt
    <3> QED BY <1>1, <3>1, <3>2, <3>3, <3>4
  <2> HIDE DEF r
  <2> DEFINE at(k) == IF k < n THEN k ELSE k + 1
  <2>8. \A k \in 1..Len(r) : at(k) \in 1..Len(ps) /\ at(k) # n /\ r[k] = ps[at(k)]
    <3> SUFFICES ASSUME NEW k \in 1..Len(r)
                 PROVE  at(k) \in 1..Len(ps) /\ at(k) # n /\ r[k] = ps[at(k)]
      OBVIOUS
    <3>1. CASE k < n
      BY <1>1, <2>7, <3>1
    <3>2. CASE k >= n
      BY <1>1, <2>7, <3>2
    <3> QED BY <1>1, <2>7, <3>1, <3>2
  <2>9. \A k, l \in 1..Len(r) : at(k) = at(l) => k = l
    BY <1>1, <2>7
  <2> HIDE DEF at
  <2>10. \A k, l \in 1..Len(r) : r[k] = r[l] => k = l
    BY <1>1, <2>8, <2>9 DEF SoundPanels, IsInjective
  <2>11. \A k \in 1..Len(r) : r[k] # p
    BY <1>1, <2>1, <2>8 DEF SoundPanels, IsInjective
  <2>12. SoundPanels(r)
    BY <2>7, <2>10, LenProperties DEF SoundPanels, IsInjective
  <2> QED BY <2>4, <2>6, <2>11, <2>12
<1> QED BY <1>2, <1>3

LEMMA RaisePanel ==
    ASSUME NEW ps, SoundPanels(ps), NEW p \in PanelSet
    PROVE  SoundPanels(Raise(ps, p))
<1> DEFINE r == RemoveFirst(ps, p)
<1>1. SoundPanels(r) /\ \A i \in 1..Len(r) : r[i] # p
  BY RemovePanel
<1> HIDE DEF r
<1>2. SoundPanels(Append(r, p))
  BY <1>1, AppendPanel
<1> QED BY <1>2 DEF Raise, r

-----------------------------------------------------------------------------
(***************************************************************************)
(* A handler and the effects after it keep the page sound.                 *)
(***************************************************************************)
LEMMA SoundPage ==
    ASSUME NEW t \in Stores, NEW b \in Apps, NEW j, NEW n, NEW tab, NEW e,
           Page(t) = <<j, n, tab, e>>,
           b.view = "registries" => j = None,
           n # None => j # None /\ n \in NodesOf[j],
           e # None => e \in EntriesOf[tab]
    PROVE  Sound(t, b)
<1>1. /\ t.planJson = j /\ t.selectedNodeId = n
      /\ t.selectedRegistryTab = tab /\ t.selectedRegistryEntry = e
  BY DEF Page
<1> QED BY <1>1 DEF Sound

LEMMA SoundSame ==
    ASSUME NEW s, NEW a, Sound(s, a), NEW t \in Stores, Page(t) = Page(s),
           NEW b \in Apps, b.view = "registries" => s.planJson = None
    PROVE  Sound(t, b)
<1>1. /\ t.planJson = s.planJson /\ t.selectedNodeId = s.selectedNodeId
      /\ t.selectedRegistryTab = s.selectedRegistryTab
      /\ t.selectedRegistryEntry = s.selectedRegistryEntry
  BY DEF Page
<1> QED BY <1>1 DEF Sound

LEMMA AppFacts ==
    /\ \A a \in Apps : ToPlan(a) \in Apps /\ ToPlan(a).view = "plan"
    /\ \A a : ToEditor(a) \in Apps /\ ToEditor(a).view = "plan"
    /\ \A a \in Apps, v \in {"home", "plan", "registries"} :
          [a EXCEPT !.view = v] \in Apps /\ [a EXCEPT !.view = v].view = v
    /\ \A v \in {"home", "plan", "registries"} :
          [mode |-> "view", view |-> v] \in Apps
BY DEF ToPlan, ToEditor, Apps

LEMMA AutoOpenSound ==
    ASSUME NEW s, NEW a, Sound(s, a), NEW ps, SoundPanels(ps)
    PROVE  SoundPanels(AutoOpen(s, a, ps))
<1> DEFINE before == IF ShowRegistries(app) THEN ps ELSE <<>>
<1>1. SoundPanels(before)
  BY NoPanels
<1>2. AutoOpen(s, a, ps) \in {<<>>, before}
         \/ /\ AutoOpen(s, a, ps) = Append(before, Selected(s))
            /\ s.selectedRegistryEntry # None
            /\ ~Contains(before, Selected(s))
  BY DEF AutoOpen
<1> HIDE DEF before
<1>3. CASE /\ AutoOpen(s, a, ps) = Append(before, Selected(s))
           /\ s.selectedRegistryEntry # None
           /\ ~Contains(before, Selected(s))
  <2>1. /\ s.selectedRegistryEntry \in EntriesOf[s.selectedRegistryTab]
        /\ s.selectedRegistryTab \in Tabs /\ s.selectedRegistryEntry \in Entries
    BY <1>3 DEF Sound, Stores
  <2>2. Selected(s) \in PanelSet
    BY <2>1 DEF Selected, PanelSet
  <2>3. \A i \in 1..Len(before) : before[i] # Selected(s)
    BY <1>3 DEF Contains
  <2>4. SoundPanels(Append(before, Selected(s)))
    BY <1>1, <2>2, <2>3, AppendPanel
  <2> QED BY <1>3, <2>4
<1> QED BY <1>1, <1>2, <1>3, NoPanels

LEMMA CommitSound ==
    ASSUME NEW s, NEW a, Sound(s, a), NEW ps, SoundPanels(ps),
           NEW requests \in Seq(Reqs), Commit(s, a, requests, ps)
    PROVE  Sound(store', app') /\ SoundPanels(panels') /\ pending' \in Seq(Reqs)
<1>1. app' = a /\ panels' = AutoOpen(s, a, ps)
  BY DEF Commit
<1>2. \/ store' = s /\ pending' = requests
      \/ /\ store' = LoadIndex(s)
         /\ pending' = Append(requests, Request("index", None, "none"))
  BY DEF Commit
<1>3. s \in Stores /\ a \in Apps /\ (a.view = "registries" => s.planJson = None)
  BY DEF Sound
<1>4. Sound(store', a)
  <2>1. LoadIndex(s) \in Stores /\ Page(LoadIndex(s)) = Page(s)
    BY <1>3, LoadIndexFields
  <2>2. Sound(LoadIndex(s), a)
    BY <1>3, <2>1, SoundSame
  <2> QED BY <1>2, <2>2
<1>5. pending' \in Seq(Reqs)
  BY <1>2, RequestFacts, AppendProperties
<1> QED BY <1>1, <1>4, <1>5, AutoOpenSound

\* An answer leaves the browser and the flag sound too.
LEMMA AnswerSound ==
    ASSUME PageInv, NEW i \in DOMAIN pending, NEW s, NEW a, Sound(s, a),
           NEW more \in Seq(Reqs), Commit(s, a, Rest(i, more), panels),
           handling' \in BOOLEAN, SoundBrowser(browser')
    PROVE  PageInv'
<1>1. pending \in Seq(Reqs) /\ i \in 1..Len(pending) /\ SoundPanels(panels)
  BY LenProperties DEF PageInv
<1>2. Rest(i, more) \in Seq(Reqs)
  BY <1>1, RestMembers DEF Rest, Swap
<1>3. Sound(store', app') /\ SoundPanels(panels') /\ pending' \in Seq(Reqs)
  BY <1>1, <1>2, CommitSound
<1> QED BY <1>3 DEF PageInv

LEMMA AwaitedFlag ==
    ASSUME NEW i, PageInv
    PROVE  (handling /\ ~Awaited(pending[i])) \in BOOLEAN
OBVIOUS

\* A request that is in flight is one that can be.
LEMMA PendingFacts ==
    ASSUME PageInv, NEW i \in DOMAIN pending
    PROVE  /\ pending[i] \in Reqs
           /\ pending[i].op \in {"plan", "source"} => pending[i].arg \in Plans
           /\ pending[i].op = "file" => pending[i].arg \in Files
           /\ Awaited(pending[i]) =>
                \/ pending[i].op = "index" /\ pending[i].arg \in Plans \cup Files
                \/ pending[i].op = "plan"
                \/ pending[i].op = "registries" /\ pending[i].arg \in RegistryUrls
<1>1. pending[i] \in Reqs
  BY ElementOfSeq, LenProperties DEF PageInv
<1> QED BY <1>1 DEF Reqs

LEMMA IndexAnswerPage ==
    ASSUME PageInv, NEW i \in DOMAIN pending, IndexAnswer(i)
    PROVE  PageInv'
<1>1. PICK ok \in BOOLEAN :
        LET s == IndexAnswered(store, ok)
            p == pending[i].arg
            more == PlanRequests(s, p, "init")
        IN  IF pending[i].caller = "none"
            THEN Answer(i, s, app, <<>>)
            ELSE /\ Commit(LoadPlanByName(s, p), app, Rest(i, more), panels)
                 /\ handling' = (more # <<>>)
                 /\ UNCHANGED <<interrupted, user>>
  BY DEF IndexAnswer
<1> DEFINE s == IndexAnswered(store, ok)
           p == pending[i].arg
           more == PlanRequests(s, p, "init")
<1>2. Sound(store, app) /\ store \in Stores /\ app \in Apps
  BY DEF PageInv, Sound
<1>3. s \in Stores /\ Page(s) = Page(store)
  BY <1>2, IndexAnsweredFields
<1>4. Sound(s, app)
  BY <1>2, <1>3, SoundSame DEF Sound
<1>5. SoundBrowser(browser')
  BY DEF IndexAnswer, PageInv
<1>6. CASE pending[i].caller = "none"
  <2>1. Answer(i, s, app, <<>>)
    BY <1>1, <1>6
  <2>2. Commit(s, app, Rest(i, <<>>), panels) /\ handling' \in BOOLEAN
    BY <2>1 DEF Answer, PageInv
  <2>3. <<>> \in Seq(Reqs)
    OBVIOUS
  <2> QED BY <1>4, <1>5, <2>2, <2>3, AnswerSound
<1>7. CASE pending[i].caller # "none"
  <2>1. Commit(LoadPlanByName(s, p), app, Rest(i, more), panels) /\ handling' \in BOOLEAN
    BY <1>1, <1>7
  <2>2. LoadPlanByName(s, p) \in Stores /\ Page(LoadPlanByName(s, p)) = Page(s)
    BY <1>3, LoadPlanByNameFields
  <2>3. Sound(LoadPlanByName(s, p), app)
    BY <1>2, <1>4, <2>2, SoundSame DEF Sound
  <2>4. more \in Seq(Reqs)
    BY PlanRequestsFacts
  <2> QED BY <1>5, <2>1, <2>3, <2>4, AnswerSound
<1> QED BY <1>6, <1>7

LEMMA PlanAnswerPage ==
    ASSUME PageInv, NEW i \in DOMAIN pending, PlanAnswer(i)
    PROVE  PageInv'
<1> DEFINE p == pending[i].arg
           more == <<Request("source", p, "none")>>
<1>1. p \in Plans /\ p \in DOMAIN NodesOf
  BY PendingFacts, StoreAssumption DEF PlanAnswer
<1>2. Sound(store, app) /\ store \in Stores /\ app \in Apps /\ SoundBrowser(browser)
  BY DEF PageInv, Sound
<1>3. CASE /\ Answer(i, PlanArrived(store, p), ToPlan(app), more)
           /\ browser' = StorePush(browser, PlanUrl(p))
  <2>1. Commit(PlanArrived(store, p), ToPlan(app), Rest(i, more), panels) /\ handling' \in BOOLEAN
    BY <1>3 DEF Answer, PageInv
  <2>2. /\ PlanArrived(store, p) \in Stores
        /\ Page(PlanArrived(store, p)) =
             <<p, None, store.selectedRegistryTab, store.selectedRegistryEntry>>
    BY <1>1, <1>2, PlanArrivedFields
  <2>3. ToPlan(app) \in Apps /\ ToPlan(app).view = "plan"
    BY <1>2, AppFacts
  <2>4. Sound(PlanArrived(store, p), ToPlan(app))
    BY <1>2, <2>2, <2>3, SoundPage DEF Sound
  <2>5. more \in Seq(Reqs)
    BY <1>1, RequestFacts
  <2>6. SoundBrowser(browser')
    BY <1>1, <1>2, <1>3, UrlFacts, StorePushSound
  <2> HIDE DEF p, more
  <2> QED BY <2>1, <2>4, <2>5, <2>6, AnswerSound
<1>4. CASE Answer(i, PlanFailed(store), app, <<>>) /\ UNCHANGED browser
  <2>1. Commit(PlanFailed(store), app, Rest(i, <<>>), panels) /\ handling' \in BOOLEAN
    BY <1>4 DEF Answer, PageInv
  <2>2. PlanFailed(store) \in Stores /\ Page(PlanFailed(store)) = Page(store)
    BY <1>2, PlanFailedFields
  <2>3. Sound(PlanFailed(store), app)
    BY <1>2, <2>2, SoundSame DEF Sound
  <2>4. SoundBrowser(browser') /\ <<>> \in Seq(Reqs)
    BY <1>2, <1>4
  <2> QED BY <2>1, <2>3, <2>4, AnswerSound
<1> QED BY <1>3, <1>4 DEF PlanAnswer

\* Answers that leave the browser alone and the page as it is.
LEMMA QuietAnswerPage ==
    ASSUME PageInv, NEW i \in DOMAIN pending, NEW s \in Stores, Page(s) = Page(store),
           NEW a \in Apps, a = app \/ a.view = "plan",
           Answer(i, s, a, <<>>), UNCHANGED browser
    PROVE  PageInv'
<1>1. Commit(s, a, Rest(i, <<>>), panels) /\ handling' \in BOOLEAN
  BY DEF Answer, PageInv
<1>2. Sound(s, a)
  BY SoundSame DEF PageInv, Sound
<1>3. SoundBrowser(browser') /\ <<>> \in Seq(Reqs)
  BY DEF PageInv
<1> QED BY <1>1, <1>2, <1>3, AnswerSound

LEMMA SourceAnswerPage ==
    ASSUME PageInv, NEW i \in DOMAIN pending, SourceAnswer(i)
    PROVE  PageInv'
<1>1. PICK code \in {pending[i].arg, None} : Answer(i, SourceAnswered(store, code), app, <<>>)
  BY DEF SourceAnswer
<1>2. code \in Plans \cup {None}
  BY PendingFacts DEF SourceAnswer
<1>3. SourceAnswered(store, code) \in Stores /\ Page(SourceAnswered(store, code)) = Page(store)
  BY <1>2, SourceAnsweredFields DEF PageInv, Sound
<1> QED BY <1>1, <1>3, QuietAnswerPage DEF PageInv, Sound, SourceAnswer

LEMMA RegistriesAnswerPage ==
    ASSUME PageInv, NEW i \in DOMAIN pending, RegistriesAnswer(i)
    PROVE  PageInv'
<1>1. PICK ok \in BOOLEAN :
        Answer(i, IF Awaited(pending[i])
                  THEN ShowRegistryUrl(RegistriesAnswered(store, ok), pending[i].arg)
                  ELSE RegistriesAnswered(store, ok), app, <<>>)
  BY DEF RegistriesAnswer
<1> DEFINE s == RegistriesAnswered(store, ok)
           url == pending[i].arg
<1>2. Sound(store, app) /\ store \in Stores /\ app \in Apps
  BY DEF PageInv, Sound
<1>3. s \in Stores /\ Page(s) = Page(store)
  BY <1>2, RegistriesAnsweredFields
<1> HIDE DEF s
<1>4. CASE ~Awaited(pending[i])
  <2>1. Answer(i, s, app, <<>>)
    BY <1>1, <1>4 DEF s
  <2> QED BY <1>2, <1>3, <2>1, QuietAnswerPage DEF RegistriesAnswer
<1>5. CASE Awaited(pending[i])
  <2> DEFINE r == ShowRegistryUrl(s, url)
  <2>1. Answer(i, r, app, <<>>)
    BY <1>1, <1>5 DEF s
  <2>2. url \in RegistryUrls
    BY <1>5, PendingFacts DEF RegistriesAnswer
  <2>3. r \in Stores /\ Page(r) = <<s.planJson, s.selectedNodeId, url.tab, url.selected>>
    BY <1>3, <2>2, ShowRegistryUrlFields
  <2>4. s.planJson = store.planJson /\ s.selectedNodeId = store.selectedNodeId
    BY <1>3 DEF Page
  <2>5. url.selected # None => url.selected \in EntriesOf[url.tab]
    BY <2>2 DEF RegistryUrls
  <2> HIDE DEF r, url
  <2>6. Sound(r, app)
    BY <1>2, <2>3, <2>4, <2>5, SoundPage DEF Sound
  <2>7. Commit(r, app, Rest(i, <<>>), panels) /\ handling' \in BOOLEAN
    BY <2>1 DEF Answer, PageInv
  <2>8. SoundBrowser(browser') /\ <<>> \in Seq(Reqs)
    BY DEF PageInv, RegistriesAnswer
  <2> QED BY <2>6, <2>7, <2>8, AnswerSound
<1> QED BY <1>4, <1>5

LEMMA LoadPlanPage ==
    ASSUME PageInv, NEW p \in DOMAIN NodesOf
    PROVE  Sound(LoadPlan(store, p), ToPlan(app))
<1>1. Sound(store, app) /\ store \in Stores /\ app \in Apps
  BY DEF PageInv, Sound
<1>2. /\ LoadPlan(store, p) \in Stores
      /\ Page(LoadPlan(store, p)) =
           <<p, None, store.selectedRegistryTab, store.selectedRegistryEntry>>
  BY <1>1, LoadPlanFields
<1>3. ToPlan(app) \in Apps /\ ToPlan(app).view = "plan"
  BY <1>1, AppFacts
<1> QED BY <1>1, <1>2, <1>3, SoundPage DEF Sound

LEMMA FileAnswerPage ==
    ASSUME PageInv, NEW i \in DOMAIN pending, FileAnswer(i)
    PROVE  PageInv'
<1> DEFINE p == pending[i].arg
<1>1. p \in Files /\ p \in DOMAIN NodesOf
  BY PendingFacts, StoreAssumption DEF FileAnswer
<1>2. CASE Answer(i, LoadPlan(store, p), ToPlan(app), <<>>)
             /\ browser' = StorePush(browser, PlanUrl(p))
  <2>1. Commit(LoadPlan(store, p), ToPlan(app), Rest(i, <<>>), panels) /\ handling' \in BOOLEAN
    BY <1>2 DEF Answer, PageInv
  <2>2. Sound(LoadPlan(store, p), ToPlan(app))
    BY <1>1, LoadPlanPage
  <2>3. SoundBrowser(browser')
    BY <1>1, <1>2, UrlFacts, StorePushSound DEF PageInv
  <2>4. <<>> \in Seq(Reqs)
    OBVIOUS
  <2> HIDE DEF p
  <2> QED BY <2>1, <2>2, <2>3, <2>4, AnswerSound
<1>3. CASE Answer(i, store, app, <<>>) /\ UNCHANGED browser
  BY <1>3, QuietAnswerPage DEF PageInv, Sound
<1> QED BY <1>2, <1>3 DEF FileAnswer

LEMMA EditAnswerPage ==
    ASSUME PageInv, NEW i \in DOMAIN pending, EditAnswer(i)
    PROVE  PageInv'
BY AppFacts, QuietAnswerPage DEF EditAnswer, PageInv, Sound

LEMMA CompileAnswerPage ==
    ASSUME PageInv, NEW i \in DOMAIN pending, CompileAnswer(i)
    PROVE  PageInv'
<1>1. CASE Answer(i, LoadPlan(store, Live), ToPlan(app), <<>>) /\ UNCHANGED browser
  <2>1. Commit(LoadPlan(store, Live), ToPlan(app), Rest(i, <<>>), panels) /\ handling' \in BOOLEAN
    BY <1>1 DEF Answer, PageInv
  <2>2. Sound(LoadPlan(store, Live), ToPlan(app))
    BY LoadPlanPage, StoreAssumption
  <2>3. SoundBrowser(browser') /\ <<>> \in Seq(Reqs)
    BY <1>1 DEF PageInv
  <2> QED BY <2>1, <2>2, <2>3, AnswerSound
<1>2. CASE Answer(i, store, app, <<>>) /\ UNCHANGED browser
  BY <1>2, QuietAnswerPage DEF PageInv, Sound
<1> QED BY <1>1, <1>2 DEF CompileAnswer

\* What the user does: requests are added, none is taken away.
LEMMA AddSound ==
    ASSUME PageInv, NEW s, NEW a, Sound(s, a), NEW more \in Seq(Reqs),
           NEW ps, SoundPanels(ps), Commit(s, a, pending \o more, ps),
           handling' \in BOOLEAN, SoundBrowser(browser')
    PROVE  PageInv'
<1>1. pending \o more \in Seq(Reqs)
  BY ConcatProperties DEF PageInv
<1>2. Sound(store', app') /\ SoundPanels(panels') /\ pending' \in Seq(Reqs)
  BY <1>1, CommitSound
<1> QED BY <1>2 DEF PageInv

LEMMA StaySound ==
    ASSUME PageInv, NEW s, NEW a, Sound(s, a), NEW more \in Seq(Reqs),
           NEW ps, SoundPanels(ps), Stay(s, a, more, ps)
    PROVE  PageInv'
BY AddSound DEF Stay, PageInv

LEMMA LeaveSound ==
    ASSUME PageInv, NEW s, NEW a, Sound(s, a), NEW url \in Urls,
           NEW more \in Seq(Reqs), Leave(s, a, url, more)
    PROVE  PageInv'
<1>1. SoundBrowser(browser')
  BY UrlFacts, StorePushSound, PushSound DEF Leave, PageInv
<1> QED BY <1>1, AddSound DEF Leave, PageInv

LEMMA BootSound ==
    ASSUME NEW url \in Urls
    PROVE  /\ Sound(Booted(url), BootApp(url))
           /\ BootRequests(url) \in Seq(Reqs)
<1> DEFINE s == LoadIndex(InitialStore)
<1>1. s \in Stores /\ Page(s) = Page(InitialStore)
  BY InitialStoreFields, LoadIndexFields
<1>2. s.planJson = None /\ s.selectedNodeId = None /\ s.selectedRegistryEntry = None
  BY <1>1, InitialStoreFields DEF Page
<1> HIDE DEF s
<1>3. /\ LoadRegistries(s) \in Stores /\ Page(LoadRegistries(s)) = Page(s)
  BY <1>1, LoadRegistriesFields
<1>4. BootApp(url) \in Apps
  BY UrlCases, AppFacts DEF BootApp, ViewOf
<1>5. Sound(s, BootApp(url))
  BY <1>1, <1>2, <1>4 DEF Sound
<1>6. Sound(LoadRegistries(s), BootApp(url))
  BY <1>2, <1>3, <1>4, <1>5, SoundSame
<1>7. Booted(url) \in {s, LoadRegistries(s)}
  BY DEF Booted, s
<1>8. BootRequests(url) \in Seq(Reqs)
  <2>1. CASE url.view = "registries"
    BY <2>1, UrlCases, RequestFacts DEF BootRequests
  <2>2. CASE url.view = "plan"
    BY <2>2, UrlCases, RequestFacts DEF BootRequests
  <2>3. CASE url.view = "home"
    BY <2>3, RequestFacts DEF BootRequests
  <2> QED BY <2>1, <2>2, <2>3, UrlCases
<1> QED BY <1>5, <1>6, <1>7, <1>8

LEMMA InitPage == Init => PageInv
<1> SUFFICES ASSUME Init
             PROVE  PageInv
  OBVIOUS
<1>1. PICK url \in {HomeUrl, RegistryUrl(FirstTab, None)} \cup {PlanUrl(p) : p \in Plans} :
        /\ browser = [entries |-> <<url>>, at |-> 1]
        /\ store = Booted(url)
        /\ pending = BootRequests(url)
        /\ handling = (url.view = "registries")
        /\ app = BootApp(url)
        /\ panels = <<>>
  BY DEF Init
<1>2. url \in Urls
  BY UrlFacts, StoreAssumption
<1>3. SoundBrowser(browser)
  BY <1>1, <1>2 DEF SoundBrowser
<1> QED BY <1>1, <1>2, <1>3, BootSound, NoPanels DEF PageInv

LEMMA UrlSound ==
    ASSUME PageInv
    PROVE  Url \in Urls
BY ElementOfSeq DEF PageInv, SoundBrowser, Url

LEMMA ReloadPage ==
    ASSUME PageInv, Reload
    PROVE  PageInv'
<1>1. Url \in Urls
  BY UrlSound
<1>2. Sound(Booted(Url), BootApp(Url)) /\ BootRequests(Url) \in Seq(Reqs)
  BY <1>1, BootSound
<1>3. /\ store' = Booted(Url) /\ pending' = BootRequests(Url) /\ app' = BootApp(Url)
      /\ panels' = <<>> /\ browser' = browser /\ handling' \in BOOLEAN
  BY DEF Reload
<1> QED BY <1>2, <1>3, NoPanels DEF PageInv

\* What the popstate listener makes of the store and asks for.
LEMMA PopSound ==
    ASSUME PageInv, NEW url \in Urls
    PROVE  /\ Sound(PopStore(store, url), [app EXCEPT !.view = ViewOf(url)])
           /\ PopRequests(store, url) \in Seq(Reqs)
<1> DEFINE a == [app EXCEPT !.view = ViewOf(url)]
           c == ClearPlan(store)
<1>1. Sound(store, app) /\ store \in Stores /\ app \in Apps
  BY DEF PageInv, Sound
<1>2. a \in Apps /\ a.view = url.view
  BY <1>1, UrlCases, AppFacts DEF ViewOf
<1>3. /\ c \in Stores
      /\ Page(c) = <<None, None, store.selectedRegistryTab, store.selectedRegistryEntry>>
  BY <1>1, ClearPlanFields
<1> HIDE DEF a, c
<1>4. Sound(c, a)
  BY <1>1, <1>2, <1>3, SoundPage DEF Sound
<1>5. c.planJson = None /\ c.selectedNodeId = None
  BY <1>3 DEF Page
<1>6. CASE url.view = "plan"
  <2>1. PopStore(store, url) = LoadPlanByName(store, url.plan)
    BY <1>6 DEF PopStore
  <2>2. /\ LoadPlanByName(store, url.plan) \in Stores
        /\ Page(LoadPlanByName(store, url.plan)) = Page(store)
    BY <1>1, LoadPlanByNameFields
  <2>3. Sound(LoadPlanByName(store, url.plan), a)
    BY <1>1, <1>2, <1>6, <2>2, SoundSame
  <2>4. PopRequests(store, url) \in Seq(Reqs)
    BY <1>6, PlanRequestsFacts DEF PopRequests
  <2> QED BY <2>1, <2>3, <2>4 DEF a
<1>7. CASE url.view = "home"
  <2>1. PopStore(store, url) = c /\ PopRequests(store, url) = <<>>
    BY <1>7 DEF PopStore, PopRequests, c
  <2> QED BY <1>4, <2>1 DEF a
<1>8. CASE url.view = "registries"
  <2>1. url \in RegistryUrls
    BY <1>8, UrlCases
  <2>2. CASE HasRegistries(store)
    <3>1. PopStore(store, url) = ShowRegistryUrl(c, url) /\ PopRequests(store, url) = <<>>
      BY <1>8, <2>2 DEF PopStore, PopRequests, c
    <3> DEFINE r == ShowRegistryUrl(c, url)
    <3>2. r \in Stores /\ Page(r) = <<None, None, url.tab, url.selected>>
      BY <1>3, <1>5, <2>1, ShowRegistryUrlFields
    <3>3. url.selected # None => url.selected \in EntriesOf[url.tab]
      BY <2>1 DEF RegistryUrls
    <3> HIDE DEF r
    <3>4. Sound(r, a)
      BY <1>2, <3>2, <3>3, SoundPage
    <3> QED BY <3>1, <3>4 DEF a, r
  <2>3. CASE ~HasRegistries(store)
    <3>1. /\ PopStore(store, url) = LoadRegistries(c)
          /\ PopRequests(store, url) = <<Request("registries", url, "pop")>>
      BY <1>8, <2>3 DEF PopStore, PopRequests, c
    <3>2. LoadRegistries(c) \in Stores /\ Page(LoadRegistries(c)) = Page(c)
      BY <1>3, LoadRegistriesFields
    <3>3. Sound(LoadRegistries(c), a)
      BY <1>2, <1>4, <1>5, <3>2, SoundSame
    <3>4. PopRequests(store, url) \in Seq(Reqs)
      BY <2>1, <3>1, RequestFacts
    <3> QED BY <3>1, <3>3, <3>4 DEF a
  <2> QED BY <2>2, <2>3
<1> QED BY <1>6, <1>7, <1>8, UrlCases

LEMMA PopStatePage ==
    ASSUME PageInv, PopState
    PROVE  PageInv'
<1>1. PICK at \in {browser.at - 1, browser.at + 1} \cap 1..Len(browser.entries) :
        /\ browser' = [browser EXCEPT !.at = at]
        /\ handling' = (PopRequests(store, browser.entries[at]) # <<>>)
        /\ Commit(PopStore(store, browser.entries[at]),
                  [app EXCEPT !.view = ViewOf(browser.entries[at])],
                  pending \o PopRequests(store, browser.entries[at]), panels)
  BY DEF PopState
<1> DEFINE url == browser.entries[at]
<1>2. url \in Urls
  BY ElementOfSeq DEF PageInv, SoundBrowser
<1>3. SoundBrowser(browser')
  BY <1>1 DEF PageInv, SoundBrowser
<1>4. /\ Sound(PopStore(store, url), [app EXCEPT !.view = ViewOf(url)])
      /\ PopRequests(store, url) \in Seq(Reqs)
  BY <1>2, PopSound
<1>5. handling' \in BOOLEAN /\ SoundPanels(panels)
  BY <1>1 DEF PageInv
<1> QED BY <1>1, <1>3, <1>4, <1>5, AddSound

\* Handlers that show what is shown, perhaps on another page.
LEMMA SameStay ==
    ASSUME PageInv, NEW s \in Stores, Page(s) = Page(store),
           NEW a \in Apps, a = app \/ a.view = "plan",
           NEW more \in Seq(Reqs), Stay(s, a, more, panels)
    PROVE  PageInv'
<1>1. Sound(s, a)
  BY SoundSame DEF PageInv, Sound
<1> QED BY <1>1, StaySound DEF PageInv

LEMMA UserPage ==
    ASSUME PageInv,
           \/ CreateNew \/ EditCurrent \/ Compile
           \/ \E p \in Plans : ClickPlan(p) \/ EditPlan(p)
           \/ \E p \in Files : DropFile(p)
    PROVE  PageInv'
<1>1. store \in Stores /\ app \in Apps /\ ToEditor(app) \in Apps /\ ToEditor(app).view = "plan"
  BY AppFacts DEF PageInv, Sound
<1>2. <<>> \in Seq(Reqs) /\ <<Request("compile", Live, "none")>> \in Seq(Reqs)
  BY RequestFacts
<1>3. CASE CreateNew \/ EditCurrent
  BY <1>1, <1>2, <1>3, SameStay DEF CreateNew, EditCurrent
<1>4. CASE Compile
  BY <1>1, <1>2, <1>4, SameStay DEF Compile
<1>5. ASSUME NEW p \in Plans, ClickPlan(p)
      PROVE  PageInv'
  <2>1. Stay(LoadPlanByName(store, p), app, PlanRequests(store, p, "none"), panels)
    BY <1>5 DEF ClickPlan
  <2>2. /\ LoadPlanByName(store, p) \in Stores
        /\ Page(LoadPlanByName(store, p)) = Page(store)
    BY <1>1, LoadPlanByNameFields
  <2>3. PlanRequests(store, p, "none") \in Seq(Reqs)
    BY PlanRequestsFacts
  <2> QED BY <1>1, <2>1, <2>2, <2>3, SameStay
<1>6. ASSUME NEW p \in Plans, EditPlan(p)
      PROVE  PageInv'
  <2>1. <<Request("edit", p, "none")>> \in Seq(Reqs)
    BY RequestFacts
  <2> QED BY <1>1, <1>6, <2>1, SameStay DEF EditPlan
<1>7. ASSUME NEW p \in Files, DropFile(p)
      PROVE  PageInv'
  <2>1. <<Request("file", p, "none")>> \in Seq(Reqs)
    BY RequestFacts
  <2> QED BY <1>1, <1>7, <2>1, SameStay DEF DropFile
<1> QED BY <1>3, <1>4, <1>5, <1>6, <1>7

LEMMA BrowsePage ==
    ASSUME PageInv, BrowsePlans \/ BrowseRegistries
    PROVE  PageInv'
<1> DEFINE c == ClearPlan(store)
           a(v) == [mode |-> "view", view |-> v]
<1>1. Sound(store, app) /\ store \in Stores
  BY DEF PageInv, Sound
<1>2. /\ c \in Stores
      /\ Page(c) = <<None, None, store.selectedRegistryTab, store.selectedRegistryEntry>>
  BY <1>1, ClearPlanFields
<1>3. a("home") \in Apps /\ a("registries") \in Apps
  BY AppFacts
<1> HIDE DEF c, a
<1>4. Sound(c, a("home")) /\ Sound(c, a("registries"))
  BY <1>1, <1>2, <1>3, SoundPage DEF Sound
<1>5. HomeUrl \in Urls /\ RegistryUrl(FirstTab, None) \in Urls
  BY UrlFacts, StoreAssumption
<1>6. <<>> \in Seq(Reqs) /\ <<Request("registries", None, "none")>> \in Seq(Reqs)
  BY RequestFacts
<1>7. CASE BrowsePlans
  <2>1. Leave(c, a("home"), HomeUrl, <<>>)
    BY <1>7 DEF BrowsePlans, c, a
  <2> QED BY <1>4, <1>5, <1>6, <2>1, LeaveSound
<1>8. CASE BrowseRegistries
  <2>1. \/ Leave(c, a("registries"), RegistryUrl(FirstTab, None), <<>>)
        \/ Leave(LoadRegistries(c), a("registries"), RegistryUrl(FirstTab, None),
                 <<Request("registries", None, "none")>>)
    BY <1>8 DEF BrowseRegistries, c, a
  <2>2. LoadRegistries(c) \in Stores /\ Page(LoadRegistries(c)) = Page(c)
    BY <1>2, LoadRegistriesFields
  <2>3. c.planJson = None
    BY <1>2 DEF Page
  <2>4. Sound(LoadRegistries(c), a("registries"))
    BY <1>3, <1>4, <2>2, <2>3, SoundSame
  <2> QED BY <1>4, <1>5, <1>6, <2>1, <2>4, LeaveSound
<1> QED BY <1>7, <1>8

LEMMA ClickCanvasPage ==
    ASSUME PageInv, ClickCanvas
    PROVE  PageInv'
<1>1. PICK n \in NodesOf[store.planJson] \cup {None} :
        Stay(SelectNode(store, n), app, <<>>, panels)
  BY DEF ClickCanvas
<1>2. Sound(store, app) /\ store \in Stores /\ app \in Apps /\ store.planJson # None
  BY DEF PageInv, Sound, ClickCanvas
<1>3. store.planJson \in DOMAIN NodesOf
  BY <1>2 DEF Stores
<1>4. n \in Nodes \cup {None}
  BY <1>3 DEF Nodes
<1>5. /\ SelectNode(store, n) \in Stores
      /\ Page(SelectNode(store, n)) =
           <<store.planJson, n, store.selectedRegistryTab, store.selectedRegistryEntry>>
  BY <1>2, <1>4, SelectNodeFields
<1>6. Sound(SelectNode(store, n), app)
  BY <1>2, <1>5, SoundPage DEF Sound
<1>7. <<>> \in Seq(Reqs) /\ SoundPanels(panels)
  BY DEF PageInv
<1> QED BY <1>1, <1>6, <1>7, StaySound

LEMMA RegistryClicksPage ==
    ASSUME PageInv,
           \/ \E t \in Tabs : ClickTab(t)
           \/ ClickEnv
           \/ \E e \in Entries : ClickRow(e)
    PROVE  PageInv'
<1>1. /\ Sound(store, app) /\ store \in Stores /\ app \in Apps
      /\ SoundPanels(panels) /\ SoundBrowser(browser) /\ pending \in Seq(Reqs)
      /\ store.selectedRegistryTab \in Tabs
  BY DEF PageInv, Sound, Stores
<1>2. ASSUME NEW t \in Tabs, ClickTab(t)
      PROVE  PageInv'
  <2> DEFINE s == SetRegistryTab(store, t)
  <2>1. s \in Stores /\ Page(s) = <<store.planJson, store.selectedNodeId, t, None>>
    BY <1>1, SetRegistryTabFields
  <2>2. Commit(s, app, pending, panels)
    BY <1>2 DEF ClickTab
  <2> HIDE DEF s
  <2>3. Sound(s, app)
    BY <1>1, <2>1, SoundPage DEF Sound
  <2>4. Sound(store', app') /\ SoundPanels(panels') /\ pending' \in Seq(Reqs)
    BY <1>1, <2>2, <2>3, CommitSound
  <2>5. SoundBrowser(browser')
    BY <1>1, <1>2, UrlFacts, StorePushSound DEF ClickTab
  <2> QED BY <1>2, <2>4, <2>5 DEF PageInv, ClickTab
<1>3. CASE ClickEnv
  <2> DEFINE s == SetSelectedEndpointEnv(store)
  <2>1. s \in Stores /\ Page(s) = <<store.planJson, store.selectedNodeId,
                                    store.selectedRegistryTab, None>>
    BY <1>1, SetEnvFields
  <2>2. Stay(s, app, <<>>, panels)
    BY <1>3 DEF ClickEnv
  <2> HIDE DEF s
  <2>3. Sound(s, app)
    BY <1>1, <2>1, SoundPage DEF Sound
  <2>4. <<>> \in Seq(Reqs)
    OBVIOUS
  <2> QED BY <1>1, <2>2, <2>3, <2>4, StaySound
<1>4. ASSUME NEW e \in Entries, ClickRow(e)
      PROVE  PageInv'
  <2> DEFINE s == SetSelectedRegistryEntry(store, e)
             tab == store.selectedRegistryTab
  <2>1. e \in EntriesOf[tab]
    BY <1>4 DEF ClickRow
  <2>2. s \in Stores /\ Page(s) = <<store.planJson, store.selectedNodeId, tab, e>>
    BY <1>1, SetEntryFields
  <2>3. Commit(s, app, pending, Raise(panels, Selected(s)))
    BY <1>4 DEF ClickRow
  <2> HIDE DEF s
  <2>4. Sound(s, app)
    BY <1>1, <2>1, <2>2, SoundPage DEF Sound
  <2>5. Selected(s) \in PanelSet
    BY <1>1, <2>1, <2>2 DEF Selected, PanelSet, Page
  <2>6. SoundPanels(Raise(panels, Selected(s)))
    BY <1>1, <2>5, RaisePanel
  <2>7. Sound(store', app') /\ SoundPanels(panels') /\ pending' \in Seq(Reqs)
    BY <1>1, <2>3, <2>4, <2>6, CommitSound
  <2>8. SoundBrowser(browser')
    BY <1>1, <1>4, <2>1, UrlFacts, StorePushSound DEF ClickRow
  <2> QED BY <1>4, <2>7, <2>8 DEF PageInv, ClickRow
<1> QED BY <1>2, <1>3, <1>4

LEMMA PanelClicksPage ==
    ASSUME PageInv, NEW i \in DOMAIN panels, ClosePanel(panels[i]) \/ DragPanel(panels[i])
    PROVE  PageInv'
<1>1. Sound(store, app) /\ SoundPanels(panels)
  BY DEF PageInv
<1>2. panels[i] \in PanelSet
  BY <1>1, ElementOfSeq DEF SoundPanels
<1>3. SoundPanels(RemoveFirst(panels, panels[i])) /\ SoundPanels(Raise(panels, panels[i]))
  BY <1>1, <1>2, RemovePanel, RaisePanel
<1>4. <<>> \in Seq(Reqs)
  OBVIOUS
<1> QED BY <1>1, <1>3, <1>4, StaySound DEF ClosePanel, DragPanel

LEMMA NextPage == PageInv /\ [Next]_vars => PageInv'
<1> SUFFICES ASSUME PageInv, [Next]_vars
             PROVE  PageInv'
  OBVIOUS
<1>1. CASE Answers
  BY <1>1, IndexAnswerPage, PlanAnswerPage, SourceAnswerPage, RegistriesAnswerPage,
     FileAnswerPage, EditAnswerPage, CompileAnswerPage DEF Answers
<1>2. CASE PopState
  BY <1>2, PopStatePage
<1>3. CASE Reload
  BY <1>3, ReloadPage
<1>4. CASE BrowsePlans \/ BrowseRegistries
  BY <1>4, BrowsePage
<1>5. CASE \/ CreateNew \/ EditCurrent \/ Compile
           \/ \E p \in Plans : ClickPlan(p) \/ EditPlan(p)
           \/ \E p \in Files : DropFile(p)
  BY <1>5, UserPage
<1>6. CASE ClickCanvas
  BY <1>6, ClickCanvasPage
<1>7. CASE \/ \E t \in Tabs : ClickTab(t)
           \/ ClickEnv
           \/ \E e \in UNION {EntriesOf[t] : t \in Tabs} : ClickRow(e)
  BY <1>7, RegistryClicksPage DEF Entries
<1>8. CASE \E i \in DOMAIN panels : ClosePanel(panels[i]) \/ DragPanel(panels[i])
  BY <1>8, PanelClicksPage
<1>9. CASE UNCHANGED vars
  BY <1>9 DEF PageInv, vars
<1> QED BY <1>1, <1>2, <1>3, <1>4, <1>5, <1>6, <1>7, <1>8, <1>9 DEF Next

\* What the page shows hangs together in every session, whatever the plans and
\* registries are and in whatever order the answers come.
THEOREM PagesSound == Spec => []PageSound
<1>1. PageInv => PageSound
  <2> SUFFICES ASSUME PageInv
               PROVE  PageSound
    OBVIOUS
  <2>1. Sound(store, app) /\ SoundPanels(panels)
    BY DEF PageInv
  <2>2. SelectionShown
    BY <2>1 DEF Sound, SelectionShown
  <2>3. \A i \in DOMAIN panels : panels[i] \in PanelSet
    BY <2>1, ElementOfSeq DEF SoundPanels
  <2>4. PanelsSound
    BY <2>1, <2>3 DEF PanelsSound, Sound, SoundPanels, PanelSet, Selected
  <2> QED BY <2>1, <2>2, <2>4 DEF PageSound, ShowRegistries, Sound
<1> QED BY <1>1, InitPage, NextPage, PTL DEF Spec

-----------------------------------------------------------------------------
(***************************************************************************)
(* Indicators: each has the request behind it that will clear it.          *)
(***************************************************************************)
Has(q, op) == \E i \in 1..Len(q) : q[i].op = op
Awaits(q) == \E i \in 1..Len(q) : Awaited(q[i])

BusyFlags(s, q) ==
    /\ s.indexLoading => Has(q, "index")
    /\ s.planLoading => Has(q, "plan")
    /\ s.sourceLoading => Has(q, "source")
    /\ s.registriesLoading => Has(q, "registries")

BusyInv ==
    /\ BusyFlags(store, pending)
    /\ handling => Awaits(pending)

\* The effects after a handler may ask for the index, last.
LEMMA CommitMembers ==
    ASSUME NEW s, NEW a, NEW requests \in Seq(Reqs), NEW ps, Commit(s, a, requests, ps)
    PROVE  /\ \A k \in 1..Len(requests) : k \in 1..Len(pending') /\ pending'[k] = requests[k]
           /\ \A l \in 1..Len(pending') :
                 \/ l \in 1..Len(requests) /\ pending'[l] = requests[l]
                 \/ pending'[l] = Request("index", None, "none")
<1>1. Len(requests) \in Nat
  BY LenProperties
<1>2. CASE pending' = requests
  BY <1>2
<1>3. CASE pending' = Append(requests, Request("index", None, "none"))
  <2> DEFINE x == Request("index", None, "none")
             r == Append(requests, x)
  <2>1. x \in Reqs
    BY RequestFacts
  <2>2. /\ Len(r) = Len(requests) + 1 /\ r[Len(requests) + 1] = x
        /\ \A k \in 1..Len(requests) : r[k] = requests[k]
    BY <2>1, AppendProperties
  <2> HIDE DEF r
  <2>3. pending' = r
    BY <1>3 DEF r
  <2>4. \A k \in 1..Len(requests) : k \in 1..Len(r)
    BY <1>1, <2>2
  <2>5. \A l \in 1..Len(r) : l \in 1..Len(requests) \/ l = Len(requests) + 1
    BY <1>1, <2>2
  <2> QED BY <2>2, <2>3, <2>4, <2>5
<1> QED BY <1>2, <1>3 DEF Commit

LEMMA AppendHas ==
    ASSUME NEW q \in Seq(Reqs), NEW x \in Reqs
    PROVE  /\ \A op : op = x.op \/ Has(q, op) => Has(Append(q, x), op)
           /\ Awaits(q) => Awaits(Append(q, x))
<1> DEFINE r == Append(q, x)
<1>1. /\ Len(r) = Len(q) + 1 /\ r[Len(q) + 1] = x /\ Len(q) \in Nat
      /\ \A k \in 1..Len(q) : r[k] = q[k]
  BY AppendProperties, LenProperties
<1> HIDE DEF r
<1>2. Len(q) + 1 \in 1..Len(r) /\ \A k \in 1..Len(q) : k \in 1..Len(r)
  BY <1>1
<1>3. /\ \A op : op = x.op \/ Has(q, op) => Has(r, op)
      /\ Awaits(q) => Awaits(r)
  BY <1>1, <1>2 DEF Has, Awaits
<1> QED BY <1>3 DEF r

LEMMA CommitBusy ==
    ASSUME NEW s \in Stores, NEW a, NEW requests \in Seq(Reqs), NEW ps,
           Commit(s, a, requests, ps), BusyFlags(s, requests)
    PROVE  BusyFlags(store', pending') /\ (Awaits(requests) => Awaits(pending'))
<1>1. \A k \in 1..Len(requests) : k \in 1..Len(pending') /\ pending'[k] = requests[k]
  BY CommitMembers
<1>2. /\ \A op : Has(requests, op) => Has(pending', op)
      /\ Awaits(requests) => Awaits(pending')
  BY <1>1 DEF Has, Awaits
<1>3. CASE store' = s
  BY <1>2, <1>3 DEF BusyFlags
<1>4. CASE store' = LoadIndex(s) /\ pending' = Append(requests, Request("index", None, "none"))
  <2>1. /\ store'.planLoading = s.planLoading /\ store'.sourceLoading = s.sourceLoading
        /\ store'.registriesLoading = s.registriesLoading
    BY <1>4, LoadIndexFields DEF Flags
  <2>2. Has(pending', "index")
    BY <1>4, RequestFacts, RequestFields, AppendHas
  <2> QED BY <1>2, <2>1, <2>2 DEF BusyFlags
<1> QED BY <1>3, <1>4 DEF Commit

\* An answer takes its own request away and no other.
LEMMA SwapHas ==
    ASSUME NEW q \in Seq(Reqs), NEW i \in 1..Len(q), NEW more \in Seq(Reqs)
    PROVE  /\ Swap(q, i, more) \in Seq(Reqs)
           /\ \A op : (Has(q, op) /\ q[i].op # op) \/ Has(more, op)
                         => Has(Swap(q, i, more), op)
           /\ (Awaits(q) /\ ~Awaited(q[i])) \/ Awaits(more)
                 => Awaits(Swap(q, i, more))
<1> DEFINE r == Swap(q, i, more)
<1>1. /\ r \in Seq(Reqs)
      /\ \A k \in (1..Len(q)) \ {i} : \E l \in 1..Len(r) : r[l] = q[k]
      /\ \A k \in 1..Len(more) : \E l \in 1..Len(r) : r[l] = more[k]
  BY RestMembers
<1> HIDE DEF r
<1>2. ASSUME NEW op, (Has(q, op) /\ q[i].op # op) \/ Has(more, op)
      PROVE  Has(r, op)
  <2>1. CASE Has(q, op) /\ q[i].op # op
    <3>1. PICK k \in 1..Len(q) : q[k].op = op
      BY <2>1 DEF Has
    <3> QED BY <1>1, <2>1, <3>1 DEF Has
  <2>2. CASE Has(more, op)
    BY <1>1, <2>2 DEF Has
  <2> QED BY <1>2, <2>1, <2>2
<1>3. ASSUME (Awaits(q) /\ ~Awaited(q[i])) \/ Awaits(more)
      PROVE  Awaits(r)
  <2>1. CASE Awaits(q) /\ ~Awaited(q[i])
    <3>1. PICK k \in 1..Len(q) : Awaited(q[k])
      BY <2>1 DEF Awaits
    <3>2. PICK l \in 1..Len(r) : r[l] = q[k]
      BY <1>1, <2>1, <3>1
    <3> QED BY <3>1, <3>2 DEF Awaits
  <2>2. CASE Awaits(more)
    <3>1. PICK k \in 1..Len(more) : Awaited(more[k])
      BY <2>2 DEF Awaits
    <3>2. PICK l \in 1..Len(r) : r[l] = more[k]
      BY <1>1, <3>1
    <3> QED BY <3>1, <3>2 DEF Awaits
  <2> QED BY <1>3, <2>1, <2>2
<1> QED BY <1>1, <1>2, <1>3 DEF r

LEMMA RestHas ==
    ASSUME PageInv, NEW i \in DOMAIN pending, NEW more \in Seq(Reqs)
    PROVE  /\ Rest(i, more) \in Seq(Reqs)
           /\ \A op : (Has(pending, op) /\ pending[i].op # op) \/ Has(more, op)
                         => Has(Rest(i, more), op)
           /\ (Awaits(pending) /\ ~Awaited(pending[i])) \/ Awaits(more)
                 => Awaits(Rest(i, more))
<1>1. pending \in Seq(Reqs) /\ i \in 1..Len(pending)
  BY LenProperties DEF PageInv
<1>2. Rest(i, more) = Swap(pending, i, more)
  BY DEF Rest, Swap
<1> QED BY <1>1, <1>2, SwapHas

LEMMA AnswerBusy ==
    ASSUME PageInv, BusyInv, NEW i \in DOMAIN pending, NEW s \in Stores, NEW a,
           NEW more \in Seq(Reqs), Commit(s, a, Rest(i, more), panels),
           s.indexLoading => store.indexLoading /\ pending[i].op # "index",
           s.planLoading => (store.planLoading /\ pending[i].op # "plan") \/ Has(more, "plan"),
           s.sourceLoading =>
              (store.sourceLoading /\ pending[i].op # "source") \/ Has(more, "source"),
           s.registriesLoading => store.registriesLoading /\ pending[i].op # "registries",
           handling' => (handling /\ ~Awaited(pending[i])) \/ Awaits(more)
    PROVE  BusyInv'
<1>1. /\ Rest(i, more) \in Seq(Reqs)
      /\ \A op : (Has(pending, op) /\ pending[i].op # op) \/ Has(more, op)
                    => Has(Rest(i, more), op)
      /\ (Awaits(pending) /\ ~Awaited(pending[i])) \/ Awaits(more) => Awaits(Rest(i, more))
  BY RestHas
<1>2. BusyFlags(s, Rest(i, more))
  BY <1>1 DEF BusyInv, BusyFlags
<1>3. BusyFlags(store', pending') /\ (Awaits(Rest(i, more)) => Awaits(pending'))
  BY <1>1, <1>2, CommitBusy
<1> QED BY <1>1, <1>3 DEF BusyInv

\* What a handler adds.
LEMMA AddBusy ==
    ASSUME PageInv, BusyInv, NEW s \in Stores, NEW a, NEW more \in Seq(Reqs), NEW ps,
           Commit(s, a, pending \o more, ps),
           s.indexLoading = store.indexLoading,
           s.planLoading => store.planLoading \/ Has(more, "plan"),
           s.sourceLoading = store.sourceLoading,
           s.registriesLoading => store.registriesLoading \/ Has(more, "registries"),
           handling' => handling \/ Awaits(more)
    PROVE  BusyInv'
<1> DEFINE r == pending \o more
<1>1. pending \in Seq(Reqs)
  BY DEF PageInv
<1>2. /\ r \in Seq(Reqs)
      /\ \A k \in 1..Len(pending) : k \in 1..Len(r) /\ r[k] = pending[k]
      /\ \A k \in 1..Len(more) : k + Len(pending) \in 1..Len(r) /\ r[k + Len(pending)] = more[k]
  BY <1>1, ConcatMembers
<1> HIDE DEF r
<1>3. \A op : Has(pending, op) \/ Has(more, op) => Has(r, op)
  BY <1>2 DEF Has
<1>4. Awaits(pending) \/ Awaits(more) => Awaits(r)
  BY <1>2 DEF Awaits
<1>5. BusyFlags(s, r)
  BY <1>3 DEF BusyInv, BusyFlags
<1>6. Commit(s, a, r, ps)
  BY DEF r
<1>7. BusyFlags(store', pending') /\ (Awaits(r) => Awaits(pending'))
  BY <1>2, <1>5, <1>6, CommitBusy
<1> QED BY <1>4, <1>7 DEF BusyInv

LEMMA AnswersBusy ==
    ASSUME PageInv, BusyInv, Answers
    PROVE  BusyInv'
<1>0. store \in Stores /\ app \in Apps /\ handling \in BOOLEAN
  BY DEF PageInv, Sound
<1>1. PICK i \in DOMAIN pending :
        \/ IndexAnswer(i) \/ PlanAnswer(i) \/ SourceAnswer(i) \/ RegistriesAnswer(i)
        \/ FileAnswer(i) \/ EditAnswer(i) \/ CompileAnswer(i)
  BY DEF Answers
<1> DEFINE nil == <<>>
<1>2. nil \in Seq(Reqs)
  OBVIOUS
<1>3. ASSUME NEW s \in Stores, NEW a, Answer(i, s, a, nil),
             s.indexLoading => store.indexLoading /\ pending[i].op # "index",
             s.planLoading => store.planLoading /\ pending[i].op # "plan",
             s.sourceLoading => store.sourceLoading /\ pending[i].op # "source",
             s.registriesLoading => store.registriesLoading /\ pending[i].op # "registries"
      PROVE  BusyInv'
  <2>1. Commit(s, a, Rest(i, nil), panels) /\ handling' = (handling /\ ~Awaited(pending[i]))
    BY <1>3 DEF Answer
  <2> HIDE DEF nil
  <2> QED BY <1>2, <1>3, <2>1, AnswerBusy
<1>4. CASE IndexAnswer(i)
  <2>1. PICK ok \in BOOLEAN :
          IF pending[i].caller = "none"
          THEN Answer(i, IndexAnswered(store, ok), app, <<>>)
          ELSE /\ Commit(LoadPlanByName(IndexAnswered(store, ok), pending[i].arg), app,
                         Rest(i, PlanRequests(IndexAnswered(store, ok), pending[i].arg, "init")),
                         panels)
               /\ handling' =
                    (PlanRequests(IndexAnswered(store, ok), pending[i].arg, "init") # <<>>)
    BY <1>4 DEF IndexAnswer
  <2> DEFINE s == IndexAnswered(store, ok)
             p == pending[i].arg
             t == LoadPlanByName(s, p)
             more == PlanRequests(s, p, "init")
  <2>2. /\ s \in Stores
        /\ Flags(s) = <<FALSE, store.planLoading, store.sourceLoading, store.registriesLoading>>
    BY <1>0, IndexAnsweredFields
  <2>3. /\ ~s.indexLoading /\ s.planLoading = store.planLoading
        /\ s.sourceLoading = store.sourceLoading /\ s.registriesLoading = store.registriesLoading
    BY <2>2 DEF Flags
  <2>4. pending[i].op = "index"
    BY <1>4 DEF IndexAnswer
  <2>5. CASE pending[i].caller = "none"
    <3>1. Answer(i, s, app, nil)
      BY <2>1, <2>5
    <3> HIDE DEF s, nil
    <3> QED BY <1>3, <2>2, <2>3, <2>4, <3>1
  <2>6. CASE pending[i].caller # "none"
    <3>1. Commit(t, app, Rest(i, more), panels) /\ handling' = (more # <<>>)
      BY <2>1, <2>6
    <3>2. /\ t \in Stores
          /\ Flags(t) = <<s.indexLoading, s.planLoading \/ Found(s, p), s.sourceLoading,
                          s.registriesLoading>>
      BY <2>2, LoadPlanByNameFields
    <3>3. /\ more \in Seq(Reqs)
          /\ Found(s, p) => more = <<Request("plan", p, "init")>>
          /\ ~Found(s, p) => more = <<>>
      BY PlanRequestsFacts
    <3>4. Found(s, p) => Has(more, "plan") /\ Awaits(more)
      BY <3>3, RequestFields DEF Has, Awaits, Awaited
    <3> HIDE DEF s, p, t, more
    <3>5. /\ ~t.indexLoading /\ (t.planLoading => store.planLoading \/ Found(s, p))
          /\ t.sourceLoading = store.sourceLoading
          /\ t.registriesLoading = store.registriesLoading
      BY <2>3, <3>2 DEF Flags
    <3>6. handling' => Awaits(more)
      BY <3>1, <3>3, <3>4
    <3> QED BY <2>4, <3>1, <3>2, <3>3, <3>4, <3>5, <3>6, AnswerBusy
  <2> QED BY <2>5, <2>6
<1>5. CASE PlanAnswer(i)
  <2> DEFINE p == pending[i].arg
             s == PlanArrived(store, p)
             t == PlanFailed(store)
             more == <<Request("source", p, "none")>>
  <2>1. p \in Plans /\ p \in DOMAIN NodesOf /\ pending[i].op = "plan"
    BY <1>5, PendingFacts, StoreAssumption DEF PlanAnswer
  <2>2. CASE Answer(i, s, ToPlan(app), more)
    <3>1. /\ s \in Stores
          /\ Flags(s) = <<store.indexLoading, FALSE, TRUE, store.registriesLoading>>
      BY <1>0, <2>1, PlanArrivedFields
    <3>2. more \in Seq(Reqs) /\ Has(more, "source")
      BY <2>1, RequestFacts, RequestFields DEF Has
    <3>3. /\ Commit(s, ToPlan(app), Rest(i, more), panels)
          /\ handling' = (handling /\ ~Awaited(pending[i]))
      BY <2>2 DEF Answer
    <3> HIDE DEF s, more, p
    <3>4. /\ s.indexLoading = store.indexLoading /\ ~s.planLoading
          /\ s.registriesLoading = store.registriesLoading
      BY <3>1 DEF Flags
    <3> QED BY <2>1, <3>1, <3>2, <3>3, <3>4, AnswerBusy
  <2>3. CASE Answer(i, t, app, nil)
    <3>1. /\ t \in Stores
          /\ Flags(t) = <<store.indexLoading, FALSE, store.sourceLoading, store.registriesLoading>>
      BY <1>0, PlanFailedFields
    <3> HIDE DEF t, nil
    <3>2. /\ t.indexLoading = store.indexLoading /\ ~t.planLoading
          /\ t.sourceLoading = store.sourceLoading
          /\ t.registriesLoading = store.registriesLoading
      BY <3>1 DEF Flags
    <3> QED BY <1>3, <2>1, <2>3, <3>1, <3>2
  <2> QED BY <1>5, <2>2, <2>3 DEF PlanAnswer
<1>6. CASE SourceAnswer(i)
  <2>1. PICK code \in {pending[i].arg, None} : Answer(i, SourceAnswered(store, code), app, nil)
    BY <1>6 DEF SourceAnswer
  <2> DEFINE s == SourceAnswered(store, code)
  <2>2. code \in Plans \cup {None} /\ pending[i].op = "source"
    BY <1>6, PendingFacts DEF SourceAnswer
  <2>3. /\ s \in Stores
        /\ Flags(s) = <<store.indexLoading, store.planLoading, FALSE, store.registriesLoading>>
    BY <1>0, <2>2, SourceAnsweredFields
  <2>4. Answer(i, s, app, nil)
    BY <2>1
  <2> HIDE DEF s, nil
  <2>5. /\ s.indexLoading = store.indexLoading /\ s.planLoading = store.planLoading
        /\ ~s.sourceLoading /\ s.registriesLoading = store.registriesLoading
    BY <2>3 DEF Flags
  <2> QED BY <1>3, <2>2, <2>3, <2>4, <2>5
<1>7. CASE RegistriesAnswer(i)
  <2>1. PICK ok \in BOOLEAN :
          Answer(i, IF Awaited(pending[i])
                    THEN ShowRegistryUrl(RegistriesAnswered(store, ok), pending[i].arg)
                    ELSE RegistriesAnswered(store, ok), app, nil)
    BY <1>7 DEF RegistriesAnswer
  <2> DEFINE s == RegistriesAnswered(store, ok)
             t == ShowRegistryUrl(s, pending[i].arg)
  <2>2. pending[i].op = "registries" /\ (Awaited(pending[i]) => pending[i].arg \in RegistryUrls)
    BY <1>7, PendingFacts DEF RegistriesAnswer
  <2>3. /\ s \in Stores
        /\ Flags(s) = <<store.indexLoading, store.planLoading, store.sourceLoading, FALSE>>
    BY <1>0, RegistriesAnsweredFields
  <2>4. Awaited(pending[i]) => t \in Stores /\ Flags(t) = Flags(s)
    BY <2>2, <2>3, ShowRegistryUrlFields
  <2>5. PICK r \in {s, t} : r \in Stores /\ Flags(r) = Flags(s) /\ Answer(i, r, app, nil)
    BY <2>1, <2>3, <2>4
  <2> HIDE DEF s, t, nil
  <2>6. /\ r.indexLoading = store.indexLoading /\ r.planLoading = store.planLoading
        /\ r.sourceLoading = store.sourceLoading /\ ~r.registriesLoading
    BY <2>3, <2>5 DEF Flags
  <2> QED BY <1>3, <2>2, <2>5, <2>6
<1>8. ASSUME NEW s \in Stores, Flags(s) = Flags(store), NEW a, Answer(i, s, a, nil),
             pending[i].op \in {"file", "edit", "compile"}
      PROVE  BusyInv'
  <2>1. /\ s.indexLoading = store.indexLoading /\ s.planLoading = store.planLoading
        /\ s.sourceLoading = store.sourceLoading
        /\ s.registriesLoading = store.registriesLoading
    BY <1>8 DEF Flags
  <2> HIDE DEF nil
  <2> QED BY <1>3, <1>8, <2>1
<1>9. CASE FileAnswer(i)
  <2> DEFINE p == pending[i].arg
  <2>1. p \in DOMAIN NodesOf /\ pending[i].op = "file"
    BY <1>9, PendingFacts, StoreAssumption DEF FileAnswer
  <2>2. LoadPlan(store, p) \in Stores /\ Flags(LoadPlan(store, p)) = Flags(store)
    BY <1>0, <2>1, LoadPlanFields
  <2>3. Answer(i, LoadPlan(store, p), ToPlan(app), nil) \/ Answer(i, store, app, nil)
    BY <1>9 DEF FileAnswer
  <2> HIDE DEF p, nil
  <2> QED BY <1>0, <1>8, <2>1, <2>2, <2>3
<1>10. CASE EditAnswer(i)
  <2>1. Answer(i, store, ToEditor(app), nil) /\ pending[i].op = "edit"
    BY <1>10 DEF EditAnswer
  <2> HIDE DEF nil
  <2> QED BY <1>0, <1>8, <2>1
<1>11. CASE CompileAnswer(i)
  <2>1. LoadPlan(store, Live) \in Stores /\ Flags(LoadPlan(store, Live)) = Flags(store)
    BY <1>0, LoadPlanFields, StoreAssumption
  <2>2. /\ pending[i].op = "compile"
        /\ Answer(i, LoadPlan(store, Live), ToPlan(app), nil) \/ Answer(i, store, app, nil)
    BY <1>11 DEF CompileAnswer
  <2> HIDE DEF nil
  <2> QED BY <1>0, <1>8, <2>1, <2>2
<1> QED BY <1>1, <1>4, <1>5, <1>6, <1>7, <1>9, <1>10, <1>11

LEMMA SameBusy ==
    ASSUME PageInv, BusyInv, NEW s \in Stores, Flags(s) = Flags(store), NEW a,
           NEW more \in Seq(Reqs), NEW ps, Commit(s, a, pending \o more, ps),
           handling' = handling
    PROVE  BusyInv'
<1>1. /\ s.indexLoading = store.indexLoading /\ s.planLoading = store.planLoading
      /\ s.sourceLoading = store.sourceLoading
      /\ s.registriesLoading = store.registriesLoading
  BY DEF Flags
<1> QED BY <1>1, AddBusy

LEMMA UserBusy ==
    ASSUME PageInv, BusyInv,
           \/ CreateNew \/ EditCurrent \/ Compile
           \/ \E p \in Plans : ClickPlan(p) \/ EditPlan(p)
           \/ \E p \in Files : DropFile(p)
    PROVE  BusyInv'
<1>1. store \in Stores
  BY DEF PageInv, Sound
<1>2. <<>> \in Seq(Reqs) /\ <<Request("compile", Live, "none")>> \in Seq(Reqs)
  BY RequestFacts
<1>3. CASE CreateNew \/ EditCurrent
  <2>1. Commit(store, ToEditor(app), pending \o <<>>, panels) /\ handling' = handling
    BY <1>3 DEF CreateNew, EditCurrent, Stay
  <2> QED BY <1>1, <1>2, <2>1, SameBusy
<1>4. CASE Compile
  BY <1>1, <1>2, <1>4, SameBusy DEF Compile, Stay
<1>5. ASSUME NEW p \in Plans, ClickPlan(p)
      PROVE  BusyInv'
  <2> DEFINE s == LoadPlanByName(store, p)
             more == PlanRequests(store, p, "none")
  <2>1. Commit(s, app, pending \o more, panels) /\ handling' = handling
    BY <1>5 DEF ClickPlan, Stay
  <2>2. /\ s \in Stores
        /\ Flags(s) = <<store.indexLoading, store.planLoading \/ Found(store, p),
                        store.sourceLoading, store.registriesLoading>>
    BY <1>1, LoadPlanByNameFields
  <2>3. /\ more \in Seq(Reqs)
        /\ Found(store, p) => more = <<Request("plan", p, "none")>>
    BY PlanRequestsFacts
  <2>4. Found(store, p) => Has(more, "plan")
    BY <2>3, RequestFields DEF Has
  <2> HIDE DEF s, more
  <2>5. /\ s.indexLoading = store.indexLoading
        /\ s.planLoading => store.planLoading \/ Found(store, p)
        /\ s.sourceLoading = store.sourceLoading
        /\ s.registriesLoading = store.registriesLoading
    BY <2>2 DEF Flags
  <2> QED BY <2>1, <2>2, <2>3, <2>4, <2>5, AddBusy
<1>6. ASSUME NEW p \in Plans, EditPlan(p)
      PROVE  BusyInv'
  <2>1. <<Request("edit", p, "none")>> \in Seq(Reqs)
    BY RequestFacts
  <2> QED BY <1>1, <1>6, <2>1, SameBusy DEF EditPlan, Stay
<1>7. ASSUME NEW p \in Files, DropFile(p)
      PROVE  BusyInv'
  <2>1. <<Request("file", p, "none")>> \in Seq(Reqs)
    BY RequestFacts
  <2> QED BY <1>1, <1>7, <2>1, SameBusy DEF DropFile, Stay
<1> QED BY <1>3, <1>4, <1>5, <1>6, <1>7

\* loadRegistries on a store whose plan has been cleared.
LEMMA ClearedBusy ==
    ASSUME NEW s \in Stores
    PROVE  /\ ClearPlan(s) \in Stores /\ Flags(ClearPlan(s)) = Flags(s)
           /\ LoadRegistries(ClearPlan(s)) \in Stores
           /\ LoadRegistries(ClearPlan(s)).indexLoading = s.indexLoading
           /\ LoadRegistries(ClearPlan(s)).planLoading = s.planLoading
           /\ LoadRegistries(ClearPlan(s)).sourceLoading = s.sourceLoading
<1> DEFINE c == ClearPlan(s)
<1>1. c \in Stores /\ Flags(c) = Flags(s)
  BY ClearPlanFields
<1> HIDE DEF c
<1>2. /\ LoadRegistries(c) \in Stores
      /\ Flags(LoadRegistries(c)) = <<c.indexLoading, c.planLoading, c.sourceLoading, TRUE>>
  BY <1>1, LoadRegistriesFields
<1>3. /\ LoadRegistries(c).indexLoading = s.indexLoading
      /\ LoadRegistries(c).planLoading = s.planLoading
      /\ LoadRegistries(c).sourceLoading = s.sourceLoading
  BY <1>1, <1>2 DEF Flags
<1> QED BY <1>1, <1>2, <1>3 DEF c

LEMMA BrowseBusy ==
    ASSUME PageInv, BusyInv, BrowsePlans \/ BrowseRegistries
    PROVE  BusyInv'
<1> DEFINE c == ClearPlan(store)
           l == LoadRegistries(c)
           a(v) == [mode |-> "view", view |-> v]
           more == <<Request("registries", None, "none")>>
<1>1. /\ c \in Stores /\ Flags(c) = Flags(store) /\ l \in Stores
      /\ l.indexLoading = store.indexLoading /\ l.planLoading = store.planLoading
      /\ l.sourceLoading = store.sourceLoading
  BY ClearedBusy DEF PageInv, Sound
<1>2. <<>> \in Seq(Reqs) /\ more \in Seq(Reqs) /\ Has(more, "registries")
  BY RequestFacts, RequestFields DEF Has
<1>3. \/ Commit(c, a("home"), pending \o <<>>, panels) /\ handling' = handling
      \/ Commit(c, a("registries"), pending \o <<>>, panels) /\ handling' = handling
      \/ Commit(l, a("registries"), pending \o more, panels) /\ handling' = handling
  BY DEF BrowsePlans, BrowseRegistries, Leave
<1> HIDE DEF c, l, a, more
<1>4. CASE /\ \/ Commit(c, a("home"), pending \o <<>>, panels)
              \/ Commit(c, a("registries"), pending \o <<>>, panels)
           /\ handling' = handling
  BY <1>1, <1>2, <1>4, SameBusy
<1>5. CASE Commit(l, a("registries"), pending \o more, panels) /\ handling' = handling
  BY <1>1, <1>2, <1>5, AddBusy
<1> QED BY <1>3, <1>4, <1>5

LEMMA PopStateBusy ==
    ASSUME PageInv, BusyInv, PopState
    PROVE  BusyInv'
<1>1. PICK at \in {browser.at - 1, browser.at + 1} \cap 1..Len(browser.entries) :
        /\ handling' = (PopRequests(store, browser.entries[at]) # <<>>)
        /\ Commit(PopStore(store, browser.entries[at]),
                  [app EXCEPT !.view = ViewOf(browser.entries[at])],
                  pending \o PopRequests(store, browser.entries[at]), panels)
  BY DEF PopState
<1> DEFINE url == browser.entries[at]
           a == [app EXCEPT !.view = ViewOf(url)]
           s == PopStore(store, url)
           more == PopRequests(store, url)
<1>2. url \in Urls
  BY ElementOfSeq DEF PageInv, SoundBrowser
<1>3. more \in Seq(Reqs) /\ s \in Stores
  BY <1>2, PopSound DEF Sound
<1>4. Commit(s, a, pending \o more, panels) /\ handling' = (more # <<>>)
  BY <1>1
<1>5. store \in Stores
  BY DEF PageInv, Sound
<1> HIDE DEF url, a
<1>6. CASE url.view = "plan"
  <2>1. s = LoadPlanByName(store, url.plan) /\ more = PlanRequests(store, url.plan, "pop")
    BY <1>6 DEF PopStore, PopRequests
  <2>2. Flags(s) = <<store.indexLoading, store.planLoading \/ Found(store, url.plan),
                     store.sourceLoading, store.registriesLoading>>
    BY <1>5, <2>1, LoadPlanByNameFields
  <2>3. /\ Found(store, url.plan) => more = <<Request("plan", url.plan, "pop")>>
        /\ ~Found(store, url.plan) => more = <<>>
    BY <2>1, PlanRequestsFacts
  <2> HIDE DEF s, more
  <2>4. Found(store, url.plan) => Has(more, "plan") /\ Awaits(more)
    <3> DEFINE r == Request("plan", url.plan, "pop")
    <3>1. r.op = "plan" /\ Awaited(r)
      BY RequestFields DEF Awaited
    <3> HIDE DEF r
    <3>2. Has(<<r>>, "plan") /\ Awaits(<<r>>)
      BY <3>1 DEF Has, Awaits
    <3> QED BY <2>3, <3>2 DEF r
  <2>5. /\ s.indexLoading = store.indexLoading
        /\ s.planLoading => store.planLoading \/ Found(store, url.plan)
        /\ s.sourceLoading = store.sourceLoading
        /\ s.registriesLoading = store.registriesLoading
    BY <2>2 DEF Flags
  <2> QED BY <1>3, <1>4, <2>3, <2>4, <2>5, AddBusy
<1>7. CASE more = <<>> /\ Flags(s) = Flags(store)
  <2> HIDE DEF s, more
  <2>1. /\ s.indexLoading = store.indexLoading /\ s.planLoading = store.planLoading
        /\ s.sourceLoading = store.sourceLoading
        /\ s.registriesLoading = store.registriesLoading
    BY <1>7 DEF Flags
  <2> QED BY <1>3, <1>4, <1>7, <2>1, AddBusy
<1>8. CASE url.view = "home"
  <2>1. s = ClearPlan(store) /\ more = <<>>
    BY <1>8 DEF PopStore, PopRequests
  <2> QED BY <1>5, <1>7, <2>1, ClearPlanFields
<1>9. CASE url.view = "registries"
  <2>1. CASE HasRegistries(store)
    <3>1. s = ShowRegistryUrl(ClearPlan(store), url) /\ more = <<>>
      BY <1>9, <2>1 DEF PopStore, PopRequests
    <3>2. url \in RegistryUrls
      BY <1>2, <1>9, UrlCases DEF url
    <3>3. ClearPlan(store) \in Stores /\ Flags(ClearPlan(store)) = Flags(store)
      BY <1>5, ClearPlanFields
    <3>4. Flags(s) = Flags(ClearPlan(store))
      BY <3>1, <3>2, <3>3, ShowRegistryUrlFields
    <3> QED BY <1>7, <3>1, <3>3, <3>4
  <2>2. CASE ~HasRegistries(store)
    <3>1. /\ s = LoadRegistries(ClearPlan(store))
          /\ more = <<Request("registries", url, "pop")>>
      BY <1>9, <2>2 DEF PopStore, PopRequests
    <3>2. /\ s.indexLoading = store.indexLoading /\ s.planLoading = store.planLoading
          /\ s.sourceLoading = store.sourceLoading
      BY <1>5, <3>1, ClearedBusy
    <3>3. Has(more, "registries") /\ Awaits(more)
      BY <3>1, RequestFields DEF Has, Awaits, Awaited
    <3> HIDE DEF s, more
    <3> QED BY <1>3, <1>4, <3>2, <3>3, AddBusy
  <2> QED BY <2>1, <2>2
<1> QED BY <1>2, <1>6, <1>8, <1>9, UrlCases DEF url

\* Loading the page: an indicator for each thing that is asked for.
LEMMA BootBusy ==
    ASSUME NEW url \in Urls
    PROVE  /\ BusyFlags(Booted(url), BootRequests(url))
           /\ url.view = "registries" => Awaits(BootRequests(url))
<1> DEFINE s == LoadIndex(InitialStore)
           x == Request("index", None, "none")
           y == Request("registries", url, "init")
           z == Request("index", url.plan, "init")
<1>1. s \in Stores /\ Flags(s) = <<TRUE, FALSE, FALSE, FALSE>>
  BY InitialStoreFields, LoadIndexFields DEF Flags
<1>2. /\ ~s.planLoading /\ ~s.sourceLoading /\ ~s.registriesLoading
  BY <1>1 DEF Flags
<1>3. x.op = "index" /\ y.op = "registries" /\ y.caller = "init"
  BY RequestFields
<1>4. /\ LoadRegistries(s) \in Stores
      /\ Flags(LoadRegistries(s)) = <<s.indexLoading, s.planLoading, s.sourceLoading, TRUE>>
  BY <1>1, LoadRegistriesFields
<1>5. ~LoadRegistries(s).planLoading /\ ~LoadRegistries(s).sourceLoading
  BY <1>2, <1>4 DEF Flags
<1>6. CASE url.view = "registries"
  <2>1. Booted(url) = LoadRegistries(s)
    BY <1>6 DEF Booted
  <2>2. BootRequests(url) = Append(<<y>>, x)
    BY <1>6 DEF BootRequests
  <2>3. x \in Reqs /\ y \in Reqs
    BY <1>6, RequestFacts, UrlCases
  <2> HIDE DEF x, y, s
  <2>4. <<y>> \in Seq(Reqs) /\ Has(<<y>>, "registries") /\ Awaits(<<y>>)
    BY <1>3, <2>3 DEF Has, Awaits, Awaited
  <2>5. LET r == BootRequests(url) IN Has(r, "index") /\ Has(r, "registries") /\ Awaits(r)
    BY <1>3, <2>2, <2>3, <2>4, AppendHas
  <2> QED BY <1>5, <2>1, <2>5 DEF BusyFlags
<1>7. CASE url.view # "registries"
  <2>1. Booted(url) = s
    BY <1>7 DEF Booted
  <2>2. BootRequests(url) \in {Append(<<z>>, x), Append(<<>>, x)}
    BY <1>7, UrlCases DEF BootRequests
  <2>3. x \in Reqs /\ (url.view = "plan" => <<z>> \in Seq(Reqs)) /\ <<>> \in Seq(Reqs)
    BY RequestFacts, UrlCases
  <2>4. url.view # "plan" => BootRequests(url) = Append(<<>>, x)
    BY <1>7 DEF BootRequests
  <2> HIDE DEF x, z, s
  <2>5. Has(BootRequests(url), "index")
    BY <1>3, <2>2, <2>3, <2>4, AppendHas
  <2> QED BY <1>2, <1>7, <2>1, <2>5 DEF BusyFlags
<1> QED BY <1>6, <1>7

LEMMA InitBusy == Init => BusyInv
<1> SUFFICES ASSUME Init
             PROVE  BusyInv
  OBVIOUS
<1>1. PICK url \in {HomeUrl, RegistryUrl(FirstTab, None)} \cup {PlanUrl(p) : p \in Plans} :
        /\ store = Booted(url)
        /\ pending = BootRequests(url)
        /\ handling = (url.view = "registries")
  BY DEF Init
<1>2. url \in Urls
  BY UrlFacts, StoreAssumption
<1> QED BY <1>1, <1>2, BootBusy DEF BusyInv

LEMMA ViewerBusy ==
    ASSUME PageInv, BusyInv,
           \/ ClickCanvas
           \/ \E t \in Tabs : ClickTab(t)
           \/ ClickEnv
           \/ \E e \in Entries : ClickRow(e)
           \/ \E i \in DOMAIN panels : ClosePanel(panels[i]) \/ DragPanel(panels[i])
    PROVE  BusyInv'
<1>1. store \in Stores /\ pending \in Seq(Reqs) /\ <<>> \in Seq(Reqs)
  BY DEF PageInv, Sound
<1>2. pending \o <<>> = pending
  BY <1>1, ConcatEmptySeq
<1>3. ASSUME NEW s \in Stores, Flags(s) = Flags(store), NEW ps,
             Commit(s, app, pending, ps), handling' = handling
      PROVE  BusyInv'
  <2>1. Commit(s, app, pending \o <<>>, ps)
    BY <1>2, <1>3
  <2> QED BY <1>1, <1>3, <2>1, SameBusy
<1>4. CASE ClickCanvas
  <2>1. PICK n \in NodesOf[store.planJson] \cup {None} :
          Stay(SelectNode(store, n), app, <<>>, panels)
    BY <1>4 DEF ClickCanvas
  <2>2. store.planJson \in DOMAIN NodesOf
    BY <1>1, <1>4 DEF ClickCanvas, Stores
  <2>3. n \in Nodes \cup {None}
    BY <2>2 DEF Nodes
  <2>4. SelectNode(store, n) \in Stores /\ Flags(SelectNode(store, n)) = Flags(store)
    BY <1>1, <2>3, SelectNodeFields
  <2> QED BY <1>2, <1>3, <2>1, <2>4 DEF Stay
<1>5. ASSUME NEW t \in Tabs, ClickTab(t)
      PROVE  BusyInv'
  <2>1. SetRegistryTab(store, t) \in Stores /\ Flags(SetRegistryTab(store, t)) = Flags(store)
    BY <1>1, SetRegistryTabFields
  <2> QED BY <1>3, <1>5, <2>1 DEF ClickTab
<1>6. CASE ClickEnv
  <2>1. /\ SetSelectedEndpointEnv(store) \in Stores
        /\ Flags(SetSelectedEndpointEnv(store)) = Flags(store)
    BY <1>1, SetEnvFields
  <2> QED BY <1>2, <1>3, <1>6, <2>1 DEF ClickEnv, Stay
<1>7. ASSUME NEW e \in Entries, ClickRow(e)
      PROVE  BusyInv'
  <2>1. /\ SetSelectedRegistryEntry(store, e) \in Stores
        /\ Flags(SetSelectedRegistryEntry(store, e)) = Flags(store)
    BY <1>1, SetEntryFields
  <2> QED BY <1>3, <1>7, <2>1 DEF ClickRow
<1>8. ASSUME NEW i \in DOMAIN panels, ClosePanel(panels[i]) \/ DragPanel(panels[i])
      PROVE  BusyInv'
  BY <1>1, <1>2, <1>3, <1>8 DEF ClosePanel, DragPanel, Stay
<1> QED BY <1>4, <1>5, <1>6, <1>7, <1>8

LEMMA NextBusy == PageInv /\ BusyInv /\ [Next]_vars => BusyInv'
<1> SUFFICES ASSUME PageInv, BusyInv, [Next]_vars
             PROVE  BusyInv'
  OBVIOUS
<1>1. CASE Answers
  BY <1>1, AnswersBusy
<1>2. CASE PopState
  BY <1>2, PopStateBusy
<1>3. CASE Reload
  <2>1. Url \in Urls
    BY UrlSound
  <2>2. /\ store' = Booted(Url) /\ pending' = BootRequests(Url)
        /\ handling' = (Url.view = "registries")
    BY <1>3 DEF Reload
  <2> QED BY <2>1, <2>2, BootBusy DEF BusyInv
<1>4. CASE BrowsePlans \/ BrowseRegistries
  BY <1>4, BrowseBusy
<1>5. CASE \/ CreateNew \/ EditCurrent \/ Compile
           \/ \E p \in Plans : ClickPlan(p) \/ EditPlan(p)
           \/ \E p \in Files : DropFile(p)
  BY <1>5, UserBusy
<1>6. CASE \/ ClickCanvas
           \/ \E t \in Tabs : ClickTab(t)
           \/ ClickEnv
           \/ \E e \in UNION {EntriesOf[t] : t \in Tabs} : ClickRow(e)
           \/ \E i \in DOMAIN panels : ClosePanel(panels[i]) \/ DragPanel(panels[i])
  BY <1>6, ViewerBusy DEF Entries
<1>7. CASE UNCHANGED vars
  BY <1>7 DEF BusyInv, vars
<1> QED BY <1>1, <1>2, <1>3, <1>4, <1>5, <1>6, <1>7 DEF Next

\* Nothing stays busy for ever: behind each indicator, and behind the flag that
\* keeps the history from being written, is a request in flight that clears it.
THEOREM PagesBusyHasRequest == Spec => []BusyHasRequest
<1>1. PageInv /\ BusyInv => BusyHasRequest
  <2> SUFFICES ASSUME PageInv, BusyInv
               PROVE  BusyHasRequest
    OBVIOUS
  <2>1. DOMAIN pending = 1..Len(pending)
    BY LenProperties DEF PageInv
  <2> QED BY <2>1 DEF BusyInv, BusyFlags, Has, Awaits, BusyHasRequest, Waiting
<1> QED BY <1>1, InitPage, NextPage, InitBusy, NextBusy, PTL DEF Spec

-----------------------------------------------------------------------------
(***************************************************************************)
(* The history: who is awaited, and that the address leads the page.       *)
(***************************************************************************)
In(q, x) == \E i \in 1..Len(q) : q[i] = x
Sole(q) == \A i, j \in 1..Len(q) : Awaited(q[i]) /\ Awaited(q[j]) => i = j

IndexAwaited(q) == \E i \in 1..Len(q) : q[i].op = "index" /\ Awaited(q[i])

\* One answer is awaited at a time unless a second popstate came, and a plan is
\* only awaited by who holds the flag.
Alone ==
    "pop" \notin interrupted =>
       /\ Sole(pending)
       /\ \A x : In(pending, x) /\ Awaited(x) /\ x.op = "plan" => handling

\* What is awaited belongs to the address, which cannot move before its answer
\* has come: the flag is held, or, before the first plan is asked for, nothing
\* that could push an address is there.
Follows ==
    interrupted = {} =>
       \A x : In(pending, x) /\ Awaited(x) =>
          /\ x.op = "plan" => Url = PlanUrl(x.arg)
          /\ x.op = "registries" => handling /\ Url = x.arg
          /\ x.op = "index" => /\ Url = PlanUrl(x.arg) /\ app.view = "plan"
                               /\ ~Has(pending, "plan") /\ ~Has(pending, "file")

\* The plan of the address is shown, has failed, or is still to come.
Leads ==
    Url.view = "plan" /\ interrupted = {} =>
       \/ store.planJson \in {Url.plan, Live}
       \/ store.planError
       \/ Has(pending, "plan")
       \/ IndexAwaited(pending)

HistoryInv == Alone /\ Follows /\ Leads

LEMMA SwapIn ==
    ASSUME NEW q \in Seq(Reqs), NEW i \in 1..Len(q), NEW more \in Seq(Reqs)
    PROVE  /\ \A x : In(Swap(q, i, more), x) => In(q, x) \/ In(more, x)
           /\ \A x : In(more, x) \/ (In(q, x) /\ x # q[i]) => In(Swap(q, i, more), x)
           /\ Sole(q) /\ Awaited(q[i]) =>
                 \A x : In(Swap(q, i, more), x) /\ Awaited(x) => In(more, x)
<1> DEFINE r == Swap(q, i, more)
<1>0. Swapped(q, i, more, r)
  BY SwapMembers
<1> HIDE DEF r
<1>1. \A l \in 1..Len(r) : \/ \E k \in 1..Len(q) : k # i /\ r[l] = q[k]
                           \/ \E k \in 1..Len(more) : r[l] = more[k]
  BY <1>0 DEF Swapped
<1>3. \A x : In(r, x) => In(q, x) \/ In(more, x)
  BY <1>1 DEF In
<1>4. ASSUME NEW x, In(more, x) \/ (In(q, x) /\ x # q[i])
      PROVE  In(r, x)
  <2>1. CASE In(more, x)
    BY <1>0, <2>1 DEF In, Swapped
  <2>2. CASE In(q, x) /\ x # q[i]
    <3>1. PICK k \in 1..Len(q) : q[k] = x
      BY <2>2 DEF In
    <3>2. k \in (1..Len(q)) \ {i}
      BY <2>2, <3>1
    <3> QED BY <1>0, <3>1, <3>2 DEF In, Swapped
  <2> QED BY <1>4, <2>1, <2>2
<1>5. ASSUME Sole(q), Awaited(q[i]), NEW x, In(r, x), Awaited(x)
      PROVE  In(more, x)
  <2>1. PICK l \in 1..Len(r) : r[l] = x
    BY <1>5 DEF In
  <2>2. ASSUME NEW k \in 1..Len(q), k # i, r[l] = q[k]
        PROVE  FALSE
    BY <1>5, <2>1, <2>2 DEF Sole
  <2> QED BY <1>0, <2>1, <2>2 DEF In, Swapped
<1> QED BY <1>3, <1>4, <1>5 DEF r

\* Where the elements of the new sequence were.
LEMMA SwapSole ==
    ASSUME NEW q \in Seq(Reqs), NEW i \in 1..Len(q), NEW more \in Seq(Reqs), Sole(q),
           ~Awaits(more) \/ (Awaited(q[i]) /\ Sole(more))
    PROVE  Sole(Swap(q, i, more))
<1> DEFINE r == Swap(q, i, more)
           n == Len(q) - 1
<1>1. /\ Len(q) \in Nat /\ Len(more) \in Nat /\ Len(r) = n + Len(more)
  BY RestAt
<1>2. \A k \in 1..(i - 1) : r[k] = q[k]
  BY RestAt
<1>3. \A k \in i..n : r[k] = q[k + 1]
  BY RestAt
<1>4. \A k \in 1..Len(more) : r[k + n] = more[k]
  BY RestAt
<1> HIDE DEF r
<1> DEFINE at(k) == IF k < i THEN k ELSE k + 1
<1>5. ASSUME NEW k \in 1..n
      PROVE  at(k) \in 1..Len(q) /\ at(k) # i /\ r[k] = q[at(k)]
  <2>1. CASE k < i
    BY <1>1, <1>2, <2>1
  <2>2. CASE k >= i
    BY <1>1, <1>3, <2>2
  <2> QED BY <1>1, <2>1, <2>2
<1>6. \A k, l \in 1..n : at(k) = at(l) => k = l
  BY <1>1
<1>7. ASSUME NEW l \in 1..Len(r), l \notin 1..n
      PROVE  l - n \in 1..Len(more) /\ r[l] = more[l - n]
  <2>1. l - n \in 1..Len(more) /\ (l - n) + n = l
    BY <1>1, <1>7
  <2> QED BY <1>4, <2>1
<1> HIDE DEF at, n
<1>8. CASE ~Awaits(more)
  <2>1. \A l \in 1..Len(r) : Awaited(r[l]) => l \in 1..n
    BY <1>7, <1>8 DEF Awaits
  <2> QED BY <1>5, <1>6, <2>1 DEF Sole, r
<1>9. CASE Awaited(q[i]) /\ Sole(more)
  <2>1. \A l \in 1..Len(r) : Awaited(r[l]) => l \notin 1..n
    BY <1>5, <1>9 DEF Sole
  <2>2. ASSUME NEW k \in 1..Len(r), NEW l \in 1..Len(r), Awaited(r[k]), Awaited(r[l])
        PROVE  k = l
    <3>1. /\ k - n \in 1..Len(more) /\ r[k] = more[k - n]
          /\ l - n \in 1..Len(more) /\ r[l] = more[l - n]
      BY <1>7, <2>1, <2>2
    <3>2. k - n = l - n
      BY <1>9, <2>2, <3>1 DEF Sole
    <3> QED BY <1>1, <3>2 DEF n
  <2> QED BY <2>2 DEF Sole, r
<1> QED BY <1>8, <1>9

LEMMA ConcatIn ==
    ASSUME NEW q \in Seq(Reqs), NEW more \in Seq(Reqs)
    PROVE  /\ \A x : In(q \o more, x) <=> In(q, x) \/ In(more, x)
           /\ Sole(q) /\ ~Awaits(more) => Sole(q \o more)
           /\ ~Awaits(q) /\ Sole(more) => Sole(q \o more)
<1> DEFINE r == q \o more
<1>0. Joined(q, more, r)
  BY ConcatJoins
<1> HIDE DEF r
<1>1. /\ Len(q) \in Nat /\ Len(more) \in Nat
      /\ \A k \in 1..Len(q) : k \in 1..Len(r) /\ r[k] = q[k]
      /\ \A k \in 1..Len(more) : k + Len(q) \in 1..Len(r) /\ r[k + Len(q)] = more[k]
  BY <1>0 DEF Joined
<1>2. \A l \in 1..Len(r) : \/ l \in 1..Len(q) /\ r[l] = q[l]
                           \/ \E k \in 1..Len(more) : l = k + Len(q) /\ r[l] = more[k]
  BY <1>0 DEF Joined
<1>3. \A x : In(r, x) <=> In(q, x) \/ In(more, x)
  BY <1>1, <1>2 DEF In
<1>4. ASSUME Sole(q), ~Awaits(more)
      PROVE  Sole(r)
  <2>1. \A l \in 1..Len(r) : Awaited(r[l]) => l \in 1..Len(q) /\ r[l] = q[l]
    BY <1>2, <1>4 DEF Awaits
  <2> QED BY <1>4, <2>1 DEF Sole
<1>5. ASSUME ~Awaits(q), Sole(more)
      PROVE  Sole(r)
  <2>1. \A l \in 1..Len(r) : Awaited(r[l]) =>
           \E k \in 1..Len(more) : l = k + Len(q) /\ r[l] = more[k]
    BY <1>2, <1>5 DEF Awaits
  <2>2. ASSUME NEW k \in 1..Len(r), NEW l \in 1..Len(r), Awaited(r[k]), Awaited(r[l])
        PROVE  k = l
    <3>1. PICK m \in 1..Len(more) : k = m + Len(q) /\ r[k] = more[m]
      BY <2>1, <2>2
    <3>2. PICK n \in 1..Len(more) : l = n + Len(q) /\ r[l] = more[n]
      BY <2>1, <2>2
    <3>3. m = n
      BY <1>5, <2>2, <3>1, <3>2 DEF Sole
    <3> QED BY <3>1, <3>2, <3>3
  <2> QED BY <2>2 DEF Sole
<1> QED BY <1>3, <1>4, <1>5 DEF r

LEMMA CommitIn ==
    ASSUME NEW s \in Stores, NEW a, NEW requests \in Seq(Reqs), NEW ps,
           Commit(s, a, requests, ps)
    PROVE  /\ app' = a /\ store'.planJson = s.planJson /\ store'.planError = s.planError
           /\ \A x : In(requests, x) => In(pending', x)
           /\ \A x : In(pending', x) => In(requests, x) \/ x = Request("index", None, "none")
           /\ Sole(requests) => Sole(pending')
<1>1. /\ \A k \in 1..Len(requests) : k \in 1..Len(pending') /\ pending'[k] = requests[k]
      /\ \A l \in 1..Len(pending') :
            \/ l \in 1..Len(requests) /\ pending'[l] = requests[l]
            \/ pending'[l] = Request("index", None, "none")
  BY CommitMembers
<1>2. ~Awaited(Request("index", None, "none"))
  BY RequestFields DEF Awaited
<1>3. Sole(requests) => Sole(pending')
  BY <1>1, <1>2 DEF Sole
<1>4. /\ \A x : In(requests, x) => In(pending', x)
      /\ \A x : In(pending', x) => In(requests, x) \/ x = Request("index", None, "none")
  BY <1>1 DEF In
<1>5. store'.planJson = s.planJson /\ store'.planError = s.planError
  <2>1. Page(LoadIndex(s)) = Page(s) /\ LoadIndex(s).planError = s.planError
    BY LoadIndexFields
  <2>2. LoadIndex(s).planJson = s.planJson
    BY <2>1 DEF Page
  <2> QED BY <2>1, <2>2 DEF Commit
<1> QED BY <1>3, <1>4, <1>5 DEF Commit

LEMMA HasIn ==
    ASSUME NEW q
    PROVE  /\ \A op : Has(q, op) <=> \E x : In(q, x) /\ x.op = op
           /\ Awaits(q) <=> \E x : In(q, x) /\ Awaited(x)
           /\ IndexAwaited(q) <=> \E x : In(q, x) /\ x.op = "index" /\ Awaited(x)
BY DEF Has, Awaits, IndexAwaited, In

LEMMA ShortIn ==
    /\ \A x : ~In(<<>>, x)
    /\ Sole(<<>>)
    /\ \A x, r : In(<<r>>, x) <=> x = r
    /\ \A r : Sole(<<r>>)
BY DEF In, Sole

\* The request for the index that the plan selector makes on its own.
OwnIndex == Request("index", None, "none")

LEMMA OwnIndexFacts == OwnIndex.op = "index" /\ ~Awaited(OwnIndex)
BY RequestFields DEF OwnIndex, Awaited

LEMMA AnswerIn ==
    ASSUME PageInv, NEW i \in 1..Len(pending), NEW s \in Stores, NEW a,
           NEW more \in Seq(Reqs), Commit(s, a, Rest(i, more), panels)
    PROVE  /\ app' = a /\ store'.planJson = s.planJson /\ store'.planError = s.planError
           /\ \A x : In(pending', x) => In(pending, x) \/ In(more, x) \/ x = OwnIndex
           /\ \A x : In(more, x) \/ (In(pending, x) /\ x # pending[i]) => In(pending', x)
           /\ Sole(pending) /\ Awaited(pending[i]) =>
                 \A x : In(pending', x) /\ Awaited(x) => In(more, x)
           /\ Sole(pending) /\ (~Awaits(more) \/ (Awaited(pending[i]) /\ Sole(more)))
                 => Sole(pending')
<1> DEFINE q == pending
           r == Swap(q, i, more)
<1>1. q \in Seq(Reqs) /\ i \in 1..Len(q)
  BY DEF PageInv
<1>2. Commit(s, a, r, panels)
  BY DEF Rest, Swap
<1> HIDE DEF q
<1>3. r \in Seq(Reqs)
  BY <1>1, SwapMembers
<1>4. /\ \A x : In(r, x) => In(q, x) \/ In(more, x)
      /\ \A x : In(more, x) \/ (In(q, x) /\ x # q[i]) => In(r, x)
      /\ Sole(q) /\ Awaited(q[i]) => \A x : In(r, x) /\ Awaited(x) => In(more, x)
  BY <1>1, SwapIn
<1>5. Sole(q) /\ (~Awaits(more) \/ (Awaited(q[i]) /\ Sole(more))) => Sole(r)
  BY <1>1, SwapSole
<1> HIDE DEF r
<1>6. /\ app' = a /\ store'.planJson = s.planJson /\ store'.planError = s.planError
      /\ \A x : In(r, x) => In(pending', x)
      /\ \A x : In(pending', x) => In(r, x) \/ x = OwnIndex
      /\ Sole(r) => Sole(pending')
  BY <1>2, <1>3, CommitIn DEF OwnIndex
<1>7. /\ \A x : In(pending', x) => In(q, x) \/ In(more, x) \/ x = OwnIndex
      /\ \A x : In(more, x) \/ (In(q, x) /\ x # q[i]) => In(pending', x)
      /\ Sole(q) /\ (~Awaits(more) \/ (Awaited(q[i]) /\ Sole(more))) => Sole(pending')
  BY <1>4, <1>5, <1>6
<1>8. Sole(q) /\ Awaited(q[i]) => \A x : In(pending', x) /\ Awaited(x) => In(more, x)
  BY <1>4, <1>6, OwnIndexFacts
<1> QED BY <1>6, <1>7, <1>8 DEF q

LEMMA AddIn ==
    ASSUME PageInv, NEW s \in Stores, NEW a, NEW more \in Seq(Reqs), NEW ps,
           Commit(s, a, pending \o more, ps)
    PROVE  /\ app' = a /\ store'.planJson = s.planJson /\ store'.planError = s.planError
           /\ \A x : In(pending', x) => In(pending, x) \/ In(more, x) \/ x = OwnIndex
           /\ \A x : In(more, x) \/ In(pending, x) => In(pending', x)
           /\ Sole(pending) /\ ~Awaits(more) => Sole(pending')
           /\ ~Awaits(pending) /\ Sole(more) => Sole(pending')
<1> DEFINE q == pending
           r == q \o more
<1>1. q \in Seq(Reqs)
  BY DEF PageInv
<1>2. Commit(s, a, r, ps)
  OBVIOUS
<1> HIDE DEF q
<1>3. r \in Seq(Reqs)
  BY <1>1, ConcatJoins
<1>4. /\ \A x : In(r, x) <=> In(q, x) \/ In(more, x)
      /\ Sole(q) /\ ~Awaits(more) => Sole(r)
      /\ ~Awaits(q) /\ Sole(more) => Sole(r)
  BY <1>1, ConcatIn
<1> HIDE DEF r
<1>6. /\ app' = a /\ store'.planJson = s.planJson /\ store'.planError = s.planError
      /\ \A x : In(r, x) => In(pending', x)
      /\ \A x : In(pending', x) => In(r, x) \/ x = OwnIndex
      /\ Sole(r) => Sole(pending')
  BY <1>2, <1>3, CommitIn DEF OwnIndex
<1> QED BY <1>4, <1>6 DEF q

-----------------------------------------------------------------------------
(***************************************************************************)
(* Each kind of step keeps it, and either keeps the history as it is or    *)
(* leaves what is awaited awaited.                                         *)
(***************************************************************************)
Kept ==
    "pop" \notin interrupted => browser' = browser \/ (Awaits(pending) => Awaits(pending'))

LEMMA AnswerHistory ==
    ASSUME PageInv, BusyInv, HistoryInv,
           NEW i \in 1..Len(pending), NEW s \in Stores, NEW a, NEW more \in Seq(Reqs),
           Commit(s, a, Rest(i, more), panels),
           handling' = (handling /\ ~Awaited(pending[i])), interrupted' = interrupted,
           ~Awaits(more), ~Has(more, "plan"), ~Has(more, "file"),
           a = app \/ a.view = "plan",
           ~(pending[i].op = "index" /\ Awaited(pending[i])),
           handling \/ pending[i].op \notin {"plan", "file"} => browser' = browser,
           Url'.view = "plan" /\ interrupted = {} =>
              \/ s.planJson \in {Url'.plan, Live} \/ s.planError
              \/ /\ browser' = browser /\ pending[i].op # "plan"
                 /\ s.planJson = store.planJson /\ s.planError = store.planError
              \/ handling /\ ~Awaited(pending[i])
    PROVE  HistoryInv' /\ Kept
<1> DEFINE r == pending[i]
<1>0. /\ In(pending, r) /\ r \in Reqs
  BY ElementOfSeq DEF In, PageInv
<1>1. /\ app' = a /\ store'.planJson = s.planJson /\ store'.planError = s.planError
      /\ \A x : In(pending', x) => In(pending, x) \/ In(more, x) \/ x = OwnIndex
      /\ \A x : In(more, x) \/ (In(pending, x) /\ x # r) => In(pending', x)
      /\ Sole(pending) /\ Awaited(r) =>
            \A x : In(pending', x) /\ Awaited(x) => In(more, x)
      /\ Sole(pending) => Sole(pending')
  BY AnswerIn
<1>2. \A x : In(more, x) => ~Awaited(x) /\ x.op # "plan" /\ x.op # "file"
  BY HasIn
<1> HIDE DEF r
<1>3. ASSUME NEW x, In(pending', x), Awaited(x)
      PROVE  In(pending, x)
  BY <1>1, <1>2, <1>3, OwnIndexFacts
<1>4. ASSUME "pop" \notin interrupted, NEW x, In(pending', x), Awaited(x)
      PROVE  ~Awaited(r)
  BY <1>1, <1>2, <1>4 DEF HistoryInv, Alone
<1>5. ASSUME NEW x, In(pending, x), Awaited(x), ~Awaited(r)
      PROVE  In(pending', x)
  BY <1>1, <1>5
<1>6. Alone'
  <2>1. ASSUME "pop" \notin interrupted, NEW x, In(pending', x), Awaited(x), x.op = "plan"
        PROVE  handling'
    BY <1>3, <1>4, <2>1 DEF HistoryInv, Alone, r
  <2>2. "pop" \notin interrupted => Sole(pending')
    BY <1>1 DEF HistoryInv, Alone
  <2> QED BY <2>1, <2>2 DEF Alone
<1>7. Follows'
  <2> SUFFICES ASSUME interrupted = {}, NEW x, In(pending', x), Awaited(x)
               PROVE  /\ x.op = "plan" => Url' = PlanUrl(x.arg)
                      /\ x.op = "registries" => handling' /\ Url' = x.arg
                      /\ x.op = "index" => /\ Url' = PlanUrl(x.arg) /\ app'.view = "plan"
                                           /\ ~Has(pending', "plan") /\ ~Has(pending', "file")
    BY DEF Follows
  <2>1. In(pending, x) /\ ~Awaited(r)
    BY <1>3, <1>4
  <2>2. CASE x.op = "plan"
    <3>1. handling /\ Url = PlanUrl(x.arg)
      BY <2>1, <2>2 DEF HistoryInv, Alone, Follows
    <3> QED BY <2>2, <3>1 DEF Url
  <2>3. CASE x.op = "registries"
    <3>1. handling /\ Url = x.arg
      BY <2>1, <2>3 DEF HistoryInv, Follows
    <3> QED BY <2>1, <2>3, <3>1 DEF Url, r
  <2>4. CASE x.op = "index"
    <3>1. /\ Url = PlanUrl(x.arg) /\ app.view = "plan"
          /\ ~Has(pending, "plan") /\ ~Has(pending, "file")
      BY <2>1, <2>4 DEF HistoryInv, Follows
    <3>2. r.op \notin {"plan", "file"}
      BY <1>0, <3>1, HasIn
    <3>3. ~Has(pending', "plan") /\ ~Has(pending', "file")
      <4>1. \A y : In(pending, y) => y.op # "plan" /\ y.op # "file"
        BY <3>1, HasIn
      <4>2. \A y : In(pending', y) => y.op # "plan" /\ y.op # "file"
        BY <1>1, <1>2, <4>1, OwnIndexFacts
      <4> QED BY <4>2 DEF Has, In
    <3> QED BY <1>1, <2>4, <3>1, <3>2, <3>3 DEF Url, r
  <2> QED BY <2>2, <2>3, <2>4
<1>8. Leads'
  <2> SUFFICES ASSUME Url'.view = "plan", interrupted = {}
               PROVE  \/ store'.planJson \in {Url'.plan, Live} \/ store'.planError
                      \/ Has(pending', "plan") \/ IndexAwaited(pending')
    BY DEF Leads
  <2>1. CASE s.planJson \in {Url'.plan, Live} \/ s.planError
    BY <1>1, <2>1
  <2>2. CASE /\ browser' = browser /\ r.op # "plan"
             /\ s.planJson = store.planJson /\ s.planError = store.planError
    <3>1. Url' = Url
      BY <2>2 DEF Url
    <3>2. \/ store.planJson \in {Url.plan, Live} \/ store.planError
          \/ Has(pending, "plan") \/ IndexAwaited(pending)
      BY <3>1 DEF HistoryInv, Leads
    <3>3. Has(pending, "plan") => Has(pending', "plan")
      BY <1>1, <2>2, HasIn
    <3>4. IndexAwaited(pending) => IndexAwaited(pending')
      BY <1>1, HasIn DEF r
    <3> QED BY <1>1, <2>2, <3>1, <3>2, <3>3, <3>4
  <2>3. CASE handling /\ ~Awaited(r)
    <3>1. browser' = browser /\ Url' = Url
      BY <2>3 DEF Url
    <3>2. PICK x : In(pending, x) /\ Awaited(x)
      BY <2>3, HasIn DEF BusyInv
    <3>3. x \in Reqs /\ In(pending', x)
      BY <1>5, <2>3, <3>2, ElementOfSeq DEF In, PageInv
    <3>4. x.op \in {"plan", "index", "registries"}
      BY <3>2, <3>3 DEF Reqs
    <3>5. x.op # "registries"
      <4>1. x.op = "registries" => Url = x.arg /\ x.arg \in RegistryUrls
        BY <3>2, <3>3 DEF HistoryInv, Follows, Reqs
      <4> QED BY <3>1, <4>1 DEF RegistryUrls
    <3> QED BY <3>2, <3>3, <3>4, <3>5, HasIn
  <2> QED BY <2>1, <2>2, <2>3 DEF r
<1>9. Kept
  <2> SUFFICES ASSUME "pop" \notin interrupted, browser' # browser, Awaits(pending)
               PROVE  Awaits(pending')
    BY DEF Kept
  <2>1. ~handling /\ r.op \in {"plan", "file"}
    BY DEF r
  <2>2. ~Awaited(r)
    <3>1. r.op = "plan" => ~Awaited(r)
      BY <1>0, <2>1 DEF HistoryInv, Alone
    <3>2. r.op = "file" => ~Awaited(r)
      BY <1>0 DEF Reqs
    <3> QED BY <2>1, <3>1, <3>2
  <2> QED BY <1>5, <2>2, HasIn
<1> QED BY <1>6, <1>7, <1>8, <1>9 DEF HistoryInv

LEMMA AddHistory ==
    ASSUME PageInv, BusyInv, HistoryInv,
           NEW s \in Stores, NEW a, NEW more \in Seq(Reqs), NEW ps,
           Commit(s, a, pending \o more, ps),
           handling' = handling, interrupted' = interrupted, ~Awaits(more),
           app.view = "plan" => a.view = "plan" /\ ~Has(more, "plan") /\ ~Has(more, "file"),
           browser' = browser \/ (~handling /\ app.view # "plan" /\ Url'.view # "plan"),
           \/ s.planJson = store.planJson /\ s.planError = store.planError
           \/ s.planError
           \/ Has(more, "plan")
    PROVE  HistoryInv' /\ Kept
<1>1. /\ app' = a /\ store'.planJson = s.planJson /\ store'.planError = s.planError
      /\ \A x : In(pending', x) => In(pending, x) \/ In(more, x) \/ x = OwnIndex
      /\ \A x : In(more, x) \/ In(pending, x) => In(pending', x)
      /\ Sole(pending) => Sole(pending')
  BY AddIn
<1>2. \A x : In(more, x) => ~Awaited(x)
  BY HasIn
<1>3. ASSUME NEW x, In(pending', x), Awaited(x)
      PROVE  In(pending, x)
  BY <1>1, <1>2, <1>3, OwnIndexFacts
<1>4. Alone'
  BY <1>1, <1>3 DEF HistoryInv, Alone
<1>5. Follows'
  <2> SUFFICES ASSUME interrupted = {}, NEW x, In(pending', x), Awaited(x)
               PROVE  /\ x.op = "plan" => Url' = PlanUrl(x.arg)
                      /\ x.op = "registries" => handling' /\ Url' = x.arg
                      /\ x.op = "index" => /\ Url' = PlanUrl(x.arg) /\ app'.view = "plan"
                                           /\ ~Has(pending', "plan") /\ ~Has(pending', "file")
    BY DEF Follows
  <2>1. In(pending, x)
    BY <1>3
  <2>2. CASE x.op = "plan"
    <3>1. handling /\ Url = PlanUrl(x.arg)
      BY <2>1, <2>2 DEF HistoryInv, Alone, Follows
    <3> QED BY <2>2, <3>1 DEF Url
  <2>3. CASE x.op = "registries"
    <3>1. handling /\ Url = x.arg
      BY <2>1, <2>3 DEF HistoryInv, Follows
    <3> QED BY <2>3, <3>1 DEF Url
  <2>4. CASE x.op = "index"
    <3>1. /\ Url = PlanUrl(x.arg) /\ app.view = "plan"
          /\ ~Has(pending, "plan") /\ ~Has(pending, "file")
      BY <2>1, <2>4 DEF HistoryInv, Follows
    <3>2. Url' = Url
      BY <3>1 DEF Url
    <3>3. ~Has(pending', "plan") /\ ~Has(pending', "file")
      <4>1. \A y : In(pending, y) \/ In(more, y) => y.op # "plan" /\ y.op # "file"
        BY <3>1, HasIn
      <4>2. \A y : In(pending', y) => y.op # "plan" /\ y.op # "file"
        BY <1>1, <4>1, OwnIndexFacts
      <4> QED BY <4>2 DEF Has, In
    <3> QED BY <1>1, <2>4, <3>1, <3>2, <3>3
  <2> QED BY <2>2, <2>3, <2>4
<1>6. Leads'
  <2> SUFFICES ASSUME Url'.view = "plan", interrupted = {}
               PROVE  \/ store'.planJson \in {Url'.plan, Live} \/ store'.planError
                      \/ Has(pending', "plan") \/ IndexAwaited(pending')
    BY DEF Leads
  <2>1. Url' = Url
    BY DEF Url
  <2>2. \/ store.planJson \in {Url.plan, Live} \/ store.planError
        \/ Has(pending, "plan") \/ IndexAwaited(pending)
    BY <2>1 DEF HistoryInv, Leads
  <2>3. \A x : In(more, x) \/ In(pending, x) => In(pending', x)
    BY <1>1
  <2>4. Has(pending, "plan") \/ Has(more, "plan") => Has(pending', "plan")
    BY <2>3 DEF Has, In
  <2>5. IndexAwaited(pending) => IndexAwaited(pending')
    BY <2>3 DEF IndexAwaited, In
  <2> QED BY <1>1, <2>1, <2>2, <2>4, <2>5
<1>7. Kept
  BY <1>1, HasIn DEF Kept
<1> QED BY <1>4, <1>5, <1>6, <1>7 DEF HistoryInv

\* Leaving: what was awaited is interrupted, and the address is of no plan.
LEMMA LeaveHistory ==
    ASSUME PageInv, HistoryInv,
           NEW s \in Stores, NEW a, NEW more \in Seq(Reqs), NEW ps,
           Commit(s, a, pending \o more, ps), Interrupt("leave"),
           handling' = handling, ~Awaits(more), Url'.view # "plan"
    PROVE  HistoryInv' /\ Kept
<1>1. /\ \A x : In(pending', x) => In(pending, x) \/ In(more, x) \/ x = OwnIndex
      /\ \A x : In(more, x) \/ In(pending, x) => In(pending', x)
      /\ Sole(pending) => Sole(pending')
  BY AddIn
<1>2. ASSUME NEW x, In(pending', x), Awaited(x)
      PROVE  In(pending, x)
  BY <1>1, <1>2, HasIn, OwnIndexFacts
<1>3. /\ Awaits(pending) => interrupted' = interrupted \cup {"leave"}
      /\ ~Awaits(pending) => interrupted' = interrupted
  <2>1. DOMAIN pending = 1..Len(pending)
    BY LenProperties DEF PageInv
  <2> QED BY <2>1 DEF Interrupt, Awaits
<1>4. "pop" \notin interrupted' => "pop" \notin interrupted
  BY <1>3
<1>5. interrupted' = {} => ~Awaits(pending)
  BY <1>3
<1>6. Alone'
  BY <1>1, <1>2, <1>4 DEF HistoryInv, Alone
<1>7. Follows'
  BY <1>2, <1>5, HasIn DEF Follows
<1>8. Leads'
  BY DEF Leads
<1>9. Kept
  BY <1>1, HasIn DEF Kept
<1> QED BY <1>6, <1>7, <1>8, <1>9 DEF HistoryInv

\* Back and Forward: with nothing awaited before them, what they await is of
\* the address they turn to.
LEMMA PopStateHistory ==
    ASSUME PageInv, HistoryInv, PopState
    PROVE  HistoryInv' /\ Kept
<1>1. PICK at \in {browser.at - 1, browser.at + 1} \cap 1..Len(browser.entries) :
        /\ browser' = [browser EXCEPT !.at = at]
        /\ handling' = (PopRequests(store, browser.entries[at]) # <<>>)
        /\ Commit(PopStore(store, browser.entries[at]),
                  [app EXCEPT !.view = ViewOf(browser.entries[at])],
                  pending \o PopRequests(store, browser.entries[at]), panels)
  BY DEF PopState
<1> DEFINE url == browser.entries[at]
           a == [app EXCEPT !.view = ViewOf(url)]
           s == PopStore(store, url)
           more == PopRequests(store, url)
<1>2. url \in Urls
  BY ElementOfSeq DEF PageInv, SoundBrowser
<1>3. more \in Seq(Reqs) /\ s \in Stores
  BY <1>2, PopSound DEF Sound
<1>4. Commit(s, a, pending \o more, panels) /\ handling' = (more # <<>>)
  BY <1>1
<1>5. Url' = url
  BY <1>1 DEF Url, PageInv, SoundBrowser
<1>6. /\ \A x : In(more, x) => handling'
      /\ Sole(more)
      /\ \A x : In(more, x) => \/ x.op = "plan" /\ url = PlanUrl(x.arg)
                               \/ x.op = "registries" /\ url = x.arg
      /\ url.view = "plan" => s.planError \/ Has(more, "plan")
  <2>1. CASE more = <<>>
    <3>1. url.view = "plan" => s.planError
      <4>1. ASSUME url.view = "plan"
            PROVE  s.planError
        <5>1. s = LoadPlanByName(store, url.plan) /\ more = PlanRequests(store, url.plan, "pop")
          BY <4>1 DEF PopStore, PopRequests
        <5>2. ~Found(store, url.plan)
          <6>1. <<Request("plan", url.plan, "pop")>> # <<>>
            OBVIOUS
          <6> QED BY <2>1, <5>1, <6>1, PlanRequestsFacts
        <5> QED BY <5>1, <5>2, LoadPlanByNameFields DEF PageInv, Sound
      <4> QED BY <4>1
    <3> QED BY <2>1, <3>1, ShortIn
  <2>2. CASE url.view = "plan" /\ more # <<>>
    <3>1. more = <<Request("plan", url.plan, "pop")>>
      BY <2>2 DEF PopRequests, PlanRequests
    <3>2. url = PlanUrl(url.plan)
      BY <1>2, <2>2, UrlCases
    <3> DEFINE r == Request("plan", url.plan, "pop")
    <3>3. r.op = "plan" /\ r.arg = url.plan
      BY RequestFields
    <3>4. Sole(more) /\ \A x : In(more, x) <=> x = r
      BY <3>1, ShortIn
    <3>5. Has(more, "plan")
      BY <3>3, <3>4, HasIn
    <3> HIDE DEF url, more, r
    <3> QED BY <1>4, <2>2, <3>2, <3>3, <3>4, <3>5
  <2>3. CASE url.view = "registries" /\ more # <<>>
    <3>1. more = <<Request("registries", url, "pop")>>
      BY <2>3 DEF PopRequests
    <3> DEFINE r == Request("registries", url, "pop")
    <3>2. r.op = "registries" /\ r.arg = url
      BY RequestFields
    <3>3. Sole(more) /\ \A x : In(more, x) <=> x = r
      BY <3>1, ShortIn
    <3> HIDE DEF url, more, r
    <3> QED BY <1>4, <2>3, <3>2, <3>3
  <2>4. CASE url.view = "home" /\ more # <<>>
    BY <2>4 DEF PopRequests
  <2> QED BY <1>2, <2>1, <2>2, <2>3, <2>4, UrlCases
<1> HIDE DEF url, a, s, more
<1>7. /\ store'.planJson = s.planJson /\ store'.planError = s.planError
      /\ \A x : In(pending', x) => In(pending, x) \/ In(more, x) \/ x = OwnIndex
      /\ \A x : In(more, x) \/ In(pending, x) => In(pending', x)
      /\ ~Awaits(pending) /\ Sole(more) => Sole(pending')
  BY <1>3, <1>4, AddIn
<1>8. /\ Awaits(pending) => "pop" \in interrupted'
      /\ ~Awaits(pending) => interrupted' = interrupted
  <2>1. DOMAIN pending = 1..Len(pending)
    BY LenProperties DEF PageInv
  <2> QED BY <2>1 DEF PopState, Interrupt, Awaits
<1>9. ASSUME "pop" \notin interrupted', NEW x, In(pending', x), Awaited(x)
      PROVE  In(more, x)
  <2>1. ~In(pending, x)
    BY <1>8, <1>9 DEF Awaits, In
  <2> QED BY <1>7, <1>9, <2>1, OwnIndexFacts
<1>10. Alone'
  BY <1>6, <1>7, <1>8, <1>9 DEF Alone
<1>11. Follows'
  BY <1>5, <1>6, <1>9 DEF Follows
<1>12. Leads'
  <2>1. Has(more, "plan") => Has(pending', "plan")
    <3>1. \A x : In(more, x) => In(pending', x)
      BY <1>7
    <3> QED BY <3>1 DEF Has, In
  <2> QED BY <1>5, <1>6, <1>7, <2>1 DEF Leads
<1>13. Kept
  <2>1. Awaits(pending) => Awaits(pending')
    BY <1>7 DEF Awaits, In
  <2> QED BY <2>1 DEF Kept
<1> QED BY <1>10, <1>11, <1>12, <1>13 DEF HistoryInv

\* Loading the page: only the plan or the registry of the address is awaited.
LEMMA BootHistory ==
    ASSUME NEW url \in Urls
    PROVE  /\ Sole(BootRequests(url))
           /\ \A x : In(BootRequests(url), x) =>
                 \/ x = OwnIndex
                 \/ url.view = "registries" /\ x.op = "registries" /\ x.arg = url
                 \/ url.view = "plan" /\ x.op = "index" /\ url = PlanUrl(x.arg)
           /\ url.view = "plan" => IndexAwaited(BootRequests(url))
<1> DEFINE y == Request("registries", url, "init")
           z == Request("index", url.plan, "init")
           nil == <<>>
<1>1. /\ OwnIndex \in Reqs
      /\ url.view = "registries" => y \in Reqs
      /\ url.view = "plan" => z \in Reqs
  BY RequestFacts, UrlCases DEF OwnIndex
<1>2. /\ y.op = "registries" /\ y.arg = url
      /\ z.op = "index" /\ z.arg = url.plan /\ Awaited(z)
  BY RequestFields DEF Awaited
<1>3. /\ url.view = "registries" => BootRequests(url) = Append(<<y>>, OwnIndex)
      /\ url.view = "plan" => BootRequests(url) = Append(<<z>>, OwnIndex)
      /\ url.view \notin {"registries", "plan"} => BootRequests(url) = Append(nil, OwnIndex)
  BY DEF BootRequests, OwnIndex
<1>4. nil \in Seq(Reqs) /\ (\A x : ~In(nil, x)) /\ Sole(nil)
  BY ShortIn
<1> HIDE DEF y, z, nil
<1>5. ASSUME NEW q \in Seq(Reqs), Sole(q)
      PROVE  /\ Sole(Append(q, OwnIndex))
             /\ \A x : In(Append(q, OwnIndex), x) <=> In(q, x) \/ x = OwnIndex
  <2> DEFINE r == Append(q, OwnIndex)
  <2>1. /\ Len(r) = Len(q) + 1 /\ r[Len(q) + 1] = OwnIndex /\ Len(q) \in Nat
        /\ \A k \in 1..Len(q) : r[k] = q[k]
    BY <1>1, AppendProperties, LenProperties
  <2> HIDE DEF r
  <2>2. Len(q) + 1 \in 1..Len(r) /\ \A k \in 1..Len(q) : k \in 1..Len(r)
    BY <2>1
  <2>3. \A k \in 1..Len(r) : k \in 1..Len(q) \/ r[k] = OwnIndex
    BY <2>1
  <2>4. Sole(r)
    BY <1>5, <2>1, <2>2, <2>3, OwnIndexFacts DEF Sole
  <2>5. \A x : In(r, x) <=> In(q, x) \/ x = OwnIndex
    BY <2>1, <2>2, <2>3 DEF In
  <2> QED BY <2>4, <2>5 DEF r
<1>6. CASE url.view = "registries"
  <2>1. <<y>> \in Seq(Reqs) /\ Sole(<<y>>) /\ \A x : In(<<y>>, x) <=> x = y
    BY <1>1, <1>6, ShortIn
  <2> QED BY <1>2, <1>3, <1>5, <1>6, <2>1
<1>7. CASE url.view = "plan"
  <2>1. <<z>> \in Seq(Reqs) /\ Sole(<<z>>) /\ \A x : In(<<z>>, x) <=> x = z
    BY <1>1, <1>7, ShortIn
  <2>2. /\ Sole(BootRequests(url))
        /\ \A x : In(BootRequests(url), x) <=> x = z \/ x = OwnIndex
    BY <1>3, <1>5, <1>7, <2>1
  <2>3. url = PlanUrl(z.arg)
    BY <1>2, <1>7, UrlCases
  <2> QED BY <1>2, <1>7, <2>2, <2>3, HasIn
<1>8. CASE url.view \notin {"registries", "plan"}
  BY <1>3, <1>4, <1>5, <1>8
<1> QED BY <1>6, <1>7, <1>8

LEMMA InitHistory == Init => HistoryInv
<1> SUFFICES ASSUME Init
             PROVE  HistoryInv
  OBVIOUS
<1>1. PICK url \in {HomeUrl, RegistryUrl(FirstTab, None)} \cup {PlanUrl(p) : p \in Plans} :
        /\ browser = [entries |-> <<url>>, at |-> 1]
        /\ pending = BootRequests(url)
        /\ handling = (url.view = "registries")
        /\ app = BootApp(url)
  BY DEF Init
<1>2. url \in Urls
  BY UrlFacts, StoreAssumption
<1>3. Url = url /\ (url.view = "plan" => app.view = "plan")
  BY <1>1 DEF Url, BootApp, ViewOf
<1>4. /\ Sole(pending)
      /\ \A x : In(pending, x) =>
            \/ x = OwnIndex
            \/ url.view = "registries" /\ x.op = "registries" /\ x.arg = url
            \/ url.view = "plan" /\ x.op = "index" /\ url = PlanUrl(x.arg)
      /\ url.view = "plan" => IndexAwaited(pending)
  BY <1>1, <1>2, BootHistory
<1>5. url.view = "plan" => ~Has(pending, "plan") /\ ~Has(pending, "file")
  BY <1>4, OwnIndexFacts DEF Has, In
<1> QED BY <1>1, <1>3, <1>4, <1>5, OwnIndexFacts DEF HistoryInv, Alone, Follows, Leads

LEMMA ReloadHistory ==
    ASSUME PageInv, Reload
    PROVE  HistoryInv' /\ Kept
<1> DEFINE url == Url
<1>1. url \in Urls
  BY UrlSound
<1>2. /\ pending' = BootRequests(url) /\ handling' = (url.view = "registries")
      /\ app' = BootApp(url) /\ browser' = browser /\ Url' = url
  BY DEF Reload, Url
<1> HIDE DEF url
<1>3. url.view = "plan" => app'.view = "plan"
  BY <1>2 DEF BootApp, ViewOf
<1>4. /\ Sole(pending')
      /\ \A x : In(pending', x) =>
            \/ x = OwnIndex
            \/ url.view = "registries" /\ x.op = "registries" /\ x.arg = url
            \/ url.view = "plan" /\ x.op = "index" /\ url = PlanUrl(x.arg)
      /\ url.view = "plan" => IndexAwaited(pending')
  BY <1>1, <1>2, BootHistory
<1>5. url.view = "plan" => ~Has(pending', "plan") /\ ~Has(pending', "file")
  BY <1>4, OwnIndexFacts DEF Has, In
<1> QED BY <1>2, <1>3, <1>4, <1>5, OwnIndexFacts
        DEF HistoryInv, Alone, Follows, Leads, Kept

\* initHistory goes on to the plan of the address.
LEMMA FirstPlanHistory ==
    ASSUME PageInv, HistoryInv, NEW i \in 1..Len(pending), NEW s \in Stores,
           NEW p, p = pending[i].arg, NEW t, t = LoadPlanByName(s, p),
           pending[i].op = "index", Awaited(pending[i]),
           Commit(t, app, Rest(i, PlanRequests(s, p, "init")), panels),
           handling' = (PlanRequests(s, p, "init") # <<>>),
           interrupted' = interrupted, browser' = browser
    PROVE  HistoryInv' /\ Kept
<1> DEFINE more == PlanRequests(s, p, "init")
           r == Request("plan", p, "init")
<1>1. /\ more \in Seq(Reqs)
      /\ Found(s, p) => more = <<r>>
      /\ ~Found(s, p) => more = <<>>
  BY PlanRequestsFacts
<1>2. /\ t \in Stores /\ t.planError = ~Found(s, p)
  BY LoadPlanByNameFields
<1>3. r.op = "plan" /\ r.arg = p
  BY RequestFields
<1>4. Commit(t, app, Rest(i, more), panels) /\ handling' = (more # <<>>)
  OBVIOUS
<1> HIDE DEF r
<1>5. <<r>> # <<>> /\ Sole(more) /\ \A x : In(more, x) <=> Found(s, p) /\ x = r
  BY <1>1, ShortIn
<1>6. \A x : In(more, x) => x.op = "plan" /\ x.arg = p /\ handling'
  BY <1>1, <1>3, <1>4, <1>5
<1>7. Found(s, p) => Has(more, "plan")
  BY <1>3, <1>5, HasIn
<1> HIDE DEF more
<1>8. /\ store'.planJson = t.planJson /\ store'.planError = t.planError
      /\ \A x : In(more, x) => In(pending', x)
      /\ Sole(pending) => \A x : In(pending', x) /\ Awaited(x) => In(more, x)
      /\ Sole(pending) => Sole(pending')
  BY <1>1, <1>2, <1>4, <1>5, AnswerIn
<1>9. Alone'
  BY <1>6, <1>8 DEF HistoryInv, Alone
<1>10. interrupted = {} => Url = PlanUrl(p) /\ Sole(pending)
  <2>1. In(pending, pending[i])
    BY DEF In
  <2> QED BY <2>1 DEF HistoryInv, Follows, Alone
<1>11. Url' = Url
  BY DEF Url
<1>12. Follows'
  BY <1>6, <1>8, <1>10, <1>11 DEF Follows
<1>13. Leads'
  <2>1. Has(more, "plan") => Has(pending', "plan")
    BY <1>8 DEF Has, In
  <2> QED BY <1>2, <1>7, <1>8, <2>1 DEF Leads
<1> QED BY <1>9, <1>12, <1>13 DEF HistoryInv, Kept

LEMMA PlanJsonOfPage ==
    ASSUME NEW s, NEW t, Page(t) = Page(s)
    PROVE  t.planJson = s.planJson
BY DEF Page

\* An answer that opens no page and pushes no address.
LEMMA QuietHistory ==
    ASSUME PageInv, BusyInv, HistoryInv,
           NEW i \in 1..Len(pending), NEW s \in Stores, NEW a,
           Answer(i, s, a, <<>>), browser' = browser,
           a = app \/ a.view = "plan",
           ~(pending[i].op = "index" /\ Awaited(pending[i])),
           \/ s.planJson = Live
           \/ s.planError
           \/ /\ s.planJson = store.planJson /\ s.planError = store.planError
              /\ pending[i].op # "plan"
    PROVE  HistoryInv' /\ Kept
<1> DEFINE nil == <<>>
<1>1. nil \in Seq(Reqs) /\ ~Awaits(nil) /\ ~Has(nil, "plan") /\ ~Has(nil, "file")
  BY DEF Awaits, Has
<1>2. /\ Commit(s, a, Rest(i, nil), panels) /\ interrupted' = interrupted
      /\ handling' = (handling /\ ~Awaited(pending[i]))
  BY DEF Answer
<1> HIDE DEF nil
<1> QED BY <1>1, <1>2, AnswerHistory

\* An answer with a plan, which pushes its address unless a popstate is handled.
LEMMA PlanHistory ==
    ASSUME PageInv, BusyInv, HistoryInv,
           NEW i \in 1..Len(pending), NEW s \in Stores,
           NEW p \in Plans \cup Files, p = pending[i].arg, NEW more \in Seq(Reqs),
           Answer(i, s, ToPlan(app), more), browser' = StorePush(browser, PlanUrl(p)),
           pending[i].op \in {"plan", "file"}, s.planJson = p,
           ~Awaits(more), ~Has(more, "plan"), ~Has(more, "file")
    PROVE  HistoryInv' /\ Kept
<1>1. /\ Commit(s, ToPlan(app), Rest(i, more), panels) /\ interrupted' = interrupted
      /\ handling' = (handling /\ ~Awaited(pending[i]))
  BY DEF Answer
<1>2. ToPlan(app).view = "plan"
  BY DEF ToPlan, PageInv, Sound, Apps
<1>3. handling => browser' = browser
  BY DEF StorePush
<1>4. ASSUME Url'.view = "plan", interrupted = {}
      PROVE  s.planJson = Url'.plan \/ (handling /\ ~Awaited(pending[i]))
  <2>1. CASE ~handling
    <3>1. PushState(browser, PlanUrl(p)).entries[PushState(browser, PlanUrl(p)).at] = PlanUrl(p)
      BY PushSound, UrlFacts DEF PageInv
    <3>2. browser' = PushState(browser, PlanUrl(p))
      BY <2>1 DEF StorePush
    <3>3. Url' = PlanUrl(p)
      BY <3>1, <3>2 DEF Url
    <3> QED BY <3>3, UrlFacts
  <2>2. CASE handling /\ Awaited(pending[i])
    <3>1. In(pending, pending[i]) /\ pending[i] \in Reqs
      BY ElementOfSeq DEF In, PageInv
    <3>2. pending[i].op = "plan"
      BY <2>2, <3>1 DEF Reqs
    <3>3. Url = PlanUrl(p)
      BY <1>4, <2>2, <3>1, <3>2 DEF HistoryInv, Follows
    <3>4. Url' = Url
      BY <1>3, <2>2 DEF Url
    <3> QED BY <3>3, <3>4, UrlFacts
  <2> QED BY <2>1, <2>2 DEF PageInv
<1>5. handling \/ pending[i].op \notin {"plan", "file"} => browser' = browser
  BY <1>3
<1> QED BY <1>1, <1>2, <1>4, <1>5, AnswerHistory

LEMMA AnswersHistory ==
    ASSUME PageInv, BusyInv, HistoryInv, Answers
    PROVE  HistoryInv' /\ Kept
<1>0. store \in Stores /\ app \in Apps /\ DOMAIN pending = 1..Len(pending)
  BY LenProperties DEF PageInv, Sound
<1>1. PICK i \in 1..Len(pending) :
        \/ IndexAnswer(i) \/ PlanAnswer(i) \/ SourceAnswer(i) \/ RegistriesAnswer(i)
        \/ FileAnswer(i) \/ EditAnswer(i) \/ CompileAnswer(i)
  BY <1>0 DEF Answers
<1>2. i \in DOMAIN pending
  BY <1>0
<1>3. CASE IndexAnswer(i)
  <2>1. PICK ok \in BOOLEAN :
          IF pending[i].caller = "none"
          THEN Answer(i, IndexAnswered(store, ok), app, <<>>)
          ELSE /\ Commit(LoadPlanByName(IndexAnswered(store, ok), pending[i].arg), app,
                         Rest(i, PlanRequests(IndexAnswered(store, ok), pending[i].arg, "init")),
                         panels)
               /\ handling' =
                    (PlanRequests(IndexAnswered(store, ok), pending[i].arg, "init") # <<>>)
               /\ interrupted' = interrupted
    BY <1>3 DEF IndexAnswer
  <2> DEFINE s == IndexAnswered(store, ok)
  <2>2. s \in Stores /\ Page(s) = Page(store) /\ s.planError = store.planError
    BY <1>0, IndexAnsweredFields
  <2>3. s.planJson = store.planJson
    BY <2>2, PlanJsonOfPage
  <2>4. pending[i].op = "index" /\ browser' = browser
    BY <1>3 DEF IndexAnswer
  <2>5. CASE pending[i].caller = "none"
    <3>1. Answer(i, s, app, <<>>) /\ ~Awaited(pending[i])
      BY <2>1, <2>5 DEF Awaited
    <3> HIDE DEF s
    <3> QED BY <2>2, <2>3, <2>4, <3>1, QuietHistory
  <2>6. CASE pending[i].caller # "none"
    <3> DEFINE p == pending[i].arg
    <3>1. /\ Commit(LoadPlanByName(s, p), app, Rest(i, PlanRequests(s, p, "init")), panels)
          /\ handling' = (PlanRequests(s, p, "init") # <<>>)
          /\ interrupted' = interrupted /\ Awaited(pending[i])
      BY <2>1, <2>6 DEF Awaited
    <3> HIDE DEF s
    <3> QED BY <2>2, <2>4, <3>1, FirstPlanHistory
  <2> QED BY <2>5, <2>6
<1>4. CASE PlanAnswer(i)
  <2> DEFINE p == pending[i].arg
             s == PlanArrived(store, p)
             t == PlanFailed(store)
             r == Request("source", p, "none")
             more == <<r>>
  <2>1. p \in Plans /\ p \in DOMAIN NodesOf /\ pending[i].op = "plan"
    BY <1>2, <1>4, PendingFacts, StoreAssumption DEF PlanAnswer
  <2>2. CASE Answer(i, s, ToPlan(app), more) /\ browser' = StorePush(browser, PlanUrl(p))
    <3>1. s \in Stores
      BY <1>0, <2>1, PlanArrivedFields
    <3>2. s.planJson = p
      <4>1. Page(s) = <<p, None, store.selectedRegistryTab, store.selectedRegistryEntry>>
        BY <1>0, <2>1, PlanArrivedFields
      <4> QED BY <4>1 DEF Page
    <3>3. more \in Seq(Reqs) /\ r.op = "source" /\ ~Awaited(r)
      BY <2>1, RequestFacts, RequestFields DEF Awaited
    <3> HIDE DEF r, s, p
    <3>4. ~Awaits(more) /\ ~Has(more, "plan") /\ ~Has(more, "file")
      BY <3>3 DEF Awaits, Has
    <3> HIDE DEF more
    <3> QED BY <2>1, <2>2, <3>1, <3>2, <3>3, <3>4, PlanHistory DEF p
  <2>3. CASE Answer(i, t, app, <<>>) /\ browser' = browser
    <3>1. t \in Stores /\ t.planError
      BY <1>0, PlanFailedFields
    <3> HIDE DEF t
    <3> QED BY <2>1, <2>3, <3>1, QuietHistory
  <2> QED BY <1>4, <2>2, <2>3 DEF PlanAnswer
<1>5. CASE SourceAnswer(i)
  <2>1. PICK code \in {pending[i].arg, None} : Answer(i, SourceAnswered(store, code), app, <<>>)
    BY <1>5 DEF SourceAnswer
  <2> DEFINE s == SourceAnswered(store, code)
  <2>2. code \in Plans \cup {None} /\ pending[i].op = "source" /\ browser' = browser
    BY <1>2, <1>5, PendingFacts DEF SourceAnswer
  <2>3. s \in Stores /\ Page(s) = Page(store) /\ s.planError = store.planError
    BY <1>0, <2>2, SourceAnsweredFields
  <2>4. Answer(i, s, app, <<>>) /\ s.planJson = store.planJson
    BY <2>1, <2>3, PlanJsonOfPage
  <2> HIDE DEF s
  <2> QED BY <2>2, <2>3, <2>4, QuietHistory
<1>6. CASE RegistriesAnswer(i)
  <2>1. PICK ok \in BOOLEAN :
          Answer(i, IF Awaited(pending[i])
                    THEN ShowRegistryUrl(RegistriesAnswered(store, ok), pending[i].arg)
                    ELSE RegistriesAnswered(store, ok), app, <<>>)
    BY <1>6 DEF RegistriesAnswer
  <2> DEFINE s == RegistriesAnswered(store, ok)
             t == ShowRegistryUrl(s, pending[i].arg)
  <2>2. /\ pending[i].op = "registries" /\ browser' = browser
        /\ Awaited(pending[i]) => pending[i].arg \in RegistryUrls
    BY <1>2, <1>6, PendingFacts DEF RegistriesAnswer
  <2>3. s \in Stores /\ Page(s) = Page(store) /\ s.planError = store.planError
    BY <1>0, RegistriesAnsweredFields
  <2>4. s.planJson = store.planJson
    BY <2>3, PlanJsonOfPage
  <2>5. Awaited(pending[i]) =>
          t \in Stores /\ t.planJson = store.planJson /\ t.planError = store.planError
    <3>1. ASSUME Awaited(pending[i])
          PROVE  /\ t \in Stores /\ t.planError = s.planError
                 /\ Page(t) = <<s.planJson, s.selectedNodeId, pending[i].arg.tab,
                                pending[i].arg.selected>>
      BY <2>2, <2>3, <3>1, ShowRegistryUrlFields
    <3>2. Awaited(pending[i]) => t.planJson = s.planJson
      BY <3>1 DEF Page
    <3> QED BY <2>3, <2>4, <3>1, <3>2
  <2>6. PICK r \in {s, t} : /\ r \in Stores /\ r.planJson = store.planJson
                            /\ r.planError = store.planError /\ Answer(i, r, app, <<>>)
    BY <2>1, <2>3, <2>4, <2>5
  <2> HIDE DEF s, t
  <2> QED BY <2>2, <2>6, QuietHistory
<1>7. CASE FileAnswer(i)
  <2> DEFINE p == pending[i].arg
             s == LoadPlan(store, p)
             nil == <<>>
  <2>1. p \in Files /\ p \in DOMAIN NodesOf /\ pending[i].op = "file"
    BY <1>2, <1>7, PendingFacts, StoreAssumption DEF FileAnswer
  <2>2. CASE Answer(i, s, ToPlan(app), nil) /\ browser' = StorePush(browser, PlanUrl(p))
    <3>1. /\ s \in Stores
          /\ Page(s) = <<p, None, store.selectedRegistryTab, store.selectedRegistryEntry>>
      BY <1>0, <2>1, LoadPlanFields
    <3>2. s.planJson = p
      BY <3>1 DEF Page
    <3>3. nil \in Seq(Reqs) /\ ~Awaits(nil) /\ ~Has(nil, "plan") /\ ~Has(nil, "file")
      BY DEF Awaits, Has
    <3> HIDE DEF nil, s, p
    <3> QED BY <2>1, <2>2, <3>1, <3>2, <3>3, PlanHistory DEF p
  <2>3. CASE Answer(i, store, app, <<>>) /\ browser' = browser
    BY <1>0, <2>1, <2>3, QuietHistory
  <2> QED BY <1>7, <2>2, <2>3 DEF FileAnswer
<1>8. CASE EditAnswer(i)
  <2>1. Answer(i, store, ToEditor(app), <<>>) /\ pending[i].op = "edit" /\ browser' = browser
    BY <1>8 DEF EditAnswer
  <2>2. ToEditor(app).view = "plan"
    BY DEF ToEditor
  <2> QED BY <1>0, <2>1, <2>2, QuietHistory
<1>9. CASE CompileAnswer(i)
  <2> DEFINE s == LoadPlan(store, Live)
  <2>1. /\ s \in Stores
        /\ Page(s) = <<Live, None, store.selectedRegistryTab, store.selectedRegistryEntry>>
    BY <1>0, LoadPlanFields, StoreAssumption
  <2>2. s.planJson = Live
    BY <2>1 DEF Page
  <2>3. /\ pending[i].op = "compile" /\ browser' = browser
        /\ Answer(i, s, ToPlan(app), <<>>) \/ Answer(i, store, app, <<>>)
    BY <1>9 DEF CompileAnswer
  <2>4. ToPlan(app).view = "plan"
    BY <1>0 DEF ToPlan, Apps
  <2> HIDE DEF s
  <2> QED BY <1>0, <2>1, <2>2, <2>3, <2>4, QuietHistory
<1> QED BY <1>1, <1>3, <1>4, <1>5, <1>6, <1>7, <1>8, <1>9

\* A handler that stays on the page and asks for nothing that shows a plan.
LEMMA StayHistory ==
    ASSUME PageInv, BusyInv, HistoryInv, NEW s \in Stores, NEW a,
           NEW more \in Seq(Reqs), NEW ps, Stay(s, a, more, ps),
           s.planJson = store.planJson, s.planError = store.planError,
           ~Awaits(more),
           app.view = "plan" => a.view = "plan" /\ ~Has(more, "plan") /\ ~Has(more, "file")
    PROVE  HistoryInv' /\ Kept
<1>1. /\ Commit(s, a, pending \o more, ps)
      /\ browser' = browser /\ handling' = handling /\ interrupted' = interrupted
  BY DEF Stay
<1> QED BY <1>1, AddHistory

\* One request that nobody awaits.
LEMMA OneRequest ==
    ASSUME NEW op, NEW arg, NEW r, r = <<Request(op, arg, "none")>>
    PROVE  ~Awaits(r) /\ \A o : o # op => ~Has(r, o)
<1> DEFINE x == Request(op, arg, "none")
<1>1. x.op = op /\ ~Awaited(x)
  BY RequestFields DEF Awaited
<1> HIDE DEF x
<1>2. ~Awaits(<<x>>) /\ \A o : o # op => ~Has(<<x>>, o)
  BY <1>1 DEF Awaits, Has
<1> QED BY <1>2 DEF x

LEMMA UserHistory ==
    ASSUME PageInv, BusyInv, HistoryInv,
           \/ CreateNew \/ EditCurrent \/ Compile
           \/ \E p \in Plans : ClickPlan(p) \/ EditPlan(p)
           \/ \E p \in Files : DropFile(p)
    PROVE  HistoryInv' /\ Kept
<1> DEFINE nil == <<>>
<1>1. store \in Stores
  BY DEF PageInv, Sound
<1>2. nil \in Seq(Reqs) /\ ~Awaits(nil) /\ ~Has(nil, "plan") /\ ~Has(nil, "file")
  BY DEF Awaits, Has
<1>3. CASE CreateNew \/ EditCurrent
  <2>1. Stay(store, ToEditor(app), nil, panels) /\ ToEditor(app).view = "plan"
    BY <1>3 DEF CreateNew, EditCurrent, ToEditor
  <2> HIDE DEF nil
  <2> QED BY <1>1, <1>2, <2>1, StayHistory
<1>4. CASE Compile
  <2> DEFINE more == <<Request("compile", Live, "none")>>
  <2>1. Stay(store, app, more, panels)
    BY <1>4 DEF Compile
  <2>2. more \in Seq(Reqs)
    BY RequestFacts
  <2>3. ~Awaits(more) /\ ~Has(more, "plan") /\ ~Has(more, "file")
    BY OneRequest
  <2> HIDE DEF more
  <2> QED BY <1>1, <2>1, <2>2, <2>3, StayHistory
<1>5. ASSUME NEW p \in Plans, ClickPlan(p)
      PROVE  HistoryInv' /\ Kept
  <2> DEFINE s == LoadPlanByName(store, p)
             r == Request("plan", p, "none")
             more == PlanRequests(store, p, "none")
  <2>1. /\ Commit(s, app, pending \o more, panels)
        /\ browser' = browser /\ handling' = handling /\ interrupted' = interrupted
        /\ app.view = "home"
    BY <1>5 DEF ClickPlan, Stay, ShowHomePage
  <2>2. s \in Stores /\ s.planError = ~Found(store, p)
    BY <1>1, LoadPlanByNameFields
  <2>3. /\ more \in Seq(Reqs)
        /\ Found(store, p) => more = <<r>>
        /\ ~Found(store, p) => more = nil
    BY PlanRequestsFacts
  <2>4. r.op = "plan" /\ ~Awaited(r)
    BY RequestFields DEF Awaited
  <2> HIDE DEF s, r, more
  <2>5. ~Awaits(more) /\ (s.planError \/ Has(more, "plan"))
    <3>1. CASE Found(store, p)
      <4>1. ~Awaits(<<r>>) /\ Has(<<r>>, "plan")
        BY <2>4 DEF Awaits, Has
      <4> QED BY <2>3, <3>1, <4>1
    <3>2. CASE ~Found(store, p)
      BY <1>2, <2>2, <2>3, <3>2
    <3> QED BY <3>1, <3>2
  <2> QED BY <2>1, <2>2, <2>3, <2>5, AddHistory
<1>6. ASSUME NEW p \in Plans, EditPlan(p)
      PROVE  HistoryInv' /\ Kept
  <2> DEFINE more == <<Request("edit", p, "none")>>
  <2>1. Stay(store, app, more, panels) /\ app.view = "home"
    BY <1>6 DEF EditPlan, ShowHomePage
  <2>2. more \in Seq(Reqs)
    BY RequestFacts
  <2>3. ~Awaits(more)
    BY OneRequest
  <2> HIDE DEF more
  <2> QED BY <1>1, <2>1, <2>2, <2>3, StayHistory
<1>7. ASSUME NEW p \in Files, DropFile(p)
      PROVE  HistoryInv' /\ Kept
  <2> DEFINE more == <<Request("file", p, "none")>>
  <2>1. Stay(store, app, more, panels) /\ app.view = "home"
    BY <1>7 DEF DropFile, ShowHomePage
  <2>2. more \in Seq(Reqs)
    BY RequestFacts
  <2>3. ~Awaits(more)
    BY OneRequest
  <2> HIDE DEF more
  <2> QED BY <1>1, <2>1, <2>2, <2>3, StayHistory
<1> QED BY <1>3, <1>4, <1>5, <1>6, <1>7

\* The address after a push.
LEMMA PushedUrl ==
    ASSUME NEW b, SoundBrowser(b), NEW url \in Urls, browser' = PushState(b, url)
    PROVE  Url' = url
<1>1. PushState(b, url).entries[PushState(b, url).at] = url
  BY PushSound
<1> QED BY <1>1 DEF Url

LEMMA BrowseHistory ==
    ASSUME PageInv, BusyInv, HistoryInv, BrowsePlans \/ BrowseRegistries
    PROVE  HistoryInv' /\ Kept
<1> DEFINE c == ClearPlan(store)
           l == LoadRegistries(c)
           a(v) == [mode |-> "view", view |-> v]
           more == <<Request("registries", None, "none")>>
           nil == <<>>
           reg == RegistryUrl(FirstTab, None)
<1>1. c \in Stores /\ l \in Stores
  BY ClearedBusy DEF PageInv, Sound
<1>2. nil \in Seq(Reqs) /\ more \in Seq(Reqs) /\ ~Awaits(nil) /\ ~Awaits(more)
  BY RequestFacts, OneRequest DEF Awaits
<1>3. /\ HomeUrl \in Urls /\ HomeUrl.view = "home"
      /\ reg \in Urls /\ reg.view = "registries"
  BY UrlFacts, StoreAssumption
<1>4. SoundBrowser(StorePush(browser, HomeUrl))
  BY <1>3, StorePushSound DEF PageInv
<1>5. \/ Leave(c, a("home"), HomeUrl, nil)
      \/ Leave(c, a("registries"), reg, nil)
      \/ Leave(l, a("registries"), reg, more)
  BY DEF BrowsePlans, BrowseRegistries
<1> HIDE DEF c, l, a, more, nil, reg
<1>6. ASSUME NEW s \in Stores, NEW v, NEW url \in Urls, url.view # "plan",
             NEW q \in Seq(Reqs), ~Awaits(q), Leave(s, a(v), url, q)
      PROVE  HistoryInv' /\ Kept
  <2>1. /\ Commit(s, a(v), pending \o q, panels) /\ Interrupt("leave")
        /\ handling' = handling /\ browser' = PushState(StorePush(browser, HomeUrl), url)
    BY <1>6 DEF Leave
  <2>2. Url' = url
    BY <1>4, <2>1, PushedUrl
  <2> QED BY <1>6, <2>1, <2>2, LeaveHistory
<1> QED BY <1>1, <1>2, <1>3, <1>5, <1>6

LEMMA ViewerHistory ==
    ASSUME PageInv, BusyInv, HistoryInv,
           \/ ClickCanvas
           \/ \E t \in Tabs : ClickTab(t)
           \/ ClickEnv
           \/ \E e \in Entries : ClickRow(e)
           \/ \E i \in DOMAIN panels : ClosePanel(panels[i]) \/ DragPanel(panels[i])
    PROVE  HistoryInv' /\ Kept
<1> DEFINE nil == <<>>
<1>1. store \in Stores /\ pending \in Seq(Reqs)
  BY DEF PageInv, Sound
<1>2. /\ nil \in Seq(Reqs) /\ ~Awaits(nil) /\ ~Has(nil, "plan") /\ ~Has(nil, "file")
      /\ pending \o nil = pending
  BY <1>1, ConcatEmptySeq DEF Awaits, Has
<1>3. ASSUME NEW s \in Stores, s.planJson = store.planJson, s.planError = store.planError,
             NEW ps, Stay(s, app, nil, ps)
      PROVE  HistoryInv' /\ Kept
  <2> HIDE DEF nil
  <2> QED BY <1>2, <1>3, StayHistory
\* An address of the registries is pushed from their page.
<1>4. ASSUME NEW s \in Stores, s.planJson = store.planJson, s.planError = store.planError,
             NEW ps, Commit(s, app, pending, ps), handling' = handling,
             interrupted' = interrupted, NEW url \in Urls, url.view = "registries",
             browser' = StorePush(browser, url), RegistryShown
      PROVE  HistoryInv' /\ Kept
  <2>1. handling => browser' = browser
    BY <1>4 DEF StorePush
  <2>2. ~handling => Url' = url
    BY <1>4, PushedUrl DEF StorePush, PageInv
  <2>3. app.view = "registries" /\ Commit(s, app, pending \o nil, ps)
    BY <1>2, <1>4 DEF RegistryShown, ShowRegistries
  <2> HIDE DEF nil
  <2> QED BY <1>2, <1>4, <2>1, <2>2, <2>3, AddHistory
<1>5. CASE ClickCanvas
  <2>1. PICK n \in NodesOf[store.planJson] \cup {None} :
          Stay(SelectNode(store, n), app, nil, panels)
    BY <1>5 DEF ClickCanvas
  <2>2. store.planJson \in DOMAIN NodesOf
    BY <1>1, <1>5 DEF ClickCanvas, Stores
  <2>3. n \in Nodes \cup {None}
    BY <2>2 DEF Nodes
  <2> DEFINE s == SelectNode(store, n)
  <2>4. s \in Stores /\ s.planError = store.planError /\ s.planJson = store.planJson
    BY <1>1, <2>3, SelectNodeFields DEF Page
  <2>5. Stay(s, app, nil, panels)
    BY <2>1
  <2> HIDE DEF s, nil
  <2> QED BY <1>3, <2>4, <2>5
<1>6. ASSUME NEW t \in Tabs, ClickTab(t)
      PROVE  HistoryInv' /\ Kept
  <2> DEFINE s == SetRegistryTab(store, t)
             url == RegistryUrl(t, None)
  <2>1. s \in Stores /\ s.planError = store.planError /\ s.planJson = store.planJson
    BY <1>1, SetRegistryTabFields DEF Page
  <2>2. url \in Urls /\ url.view = "registries"
    BY UrlFacts
  <2>3. /\ Commit(s, app, pending, panels) /\ handling' = handling /\ RegistryShown
        /\ interrupted' = interrupted /\ browser' = StorePush(browser, url)
    BY <1>6 DEF ClickTab
  <2> HIDE DEF s, url
  <2> QED BY <1>4, <2>1, <2>2, <2>3
<1>7. CASE ClickEnv
  <2> DEFINE s == SetSelectedEndpointEnv(store)
  <2>1. s \in Stores /\ s.planError = store.planError /\ s.planJson = store.planJson
    BY <1>1, SetEnvFields DEF Page
  <2>2. Stay(s, app, nil, panels)
    BY <1>7 DEF ClickEnv
  <2> HIDE DEF s, nil
  <2> QED BY <1>3, <2>1, <2>2
<1>8. ASSUME NEW e \in Entries, ClickRow(e)
      PROVE  HistoryInv' /\ Kept
  <2> DEFINE s == SetSelectedRegistryEntry(store, e)
             url == RegistryUrl(store.selectedRegistryTab, e)
  <2>1. s \in Stores /\ s.planError = store.planError /\ s.planJson = store.planJson
    BY <1>1, SetEntryFields DEF Page
  <2>2. url \in Urls /\ url.view = "registries"
    <3>1. store.selectedRegistryTab \in Tabs /\ e \in EntriesOf[store.selectedRegistryTab]
      BY <1>1, <1>8 DEF Stores, ClickRow
    <3> QED BY <3>1, UrlFacts
  <2>3. /\ Commit(s, app, pending, Raise(panels, Selected(s))) /\ handling' = handling
        /\ RegistryShown /\ interrupted' = interrupted /\ browser' = StorePush(browser, url)
    BY <1>8 DEF ClickRow
  <2> HIDE DEF s, url
  <2> QED BY <1>4, <2>1, <2>2, <2>3
<1>9. ASSUME NEW i \in DOMAIN panels, ClosePanel(panels[i]) \/ DragPanel(panels[i])
      PROVE  HistoryInv' /\ Kept
  BY <1>1, <1>3, <1>9 DEF ClosePanel, DragPanel
<1> QED BY <1>5, <1>6, <1>7, <1>8, <1>9

LEMMA NextHistory == PageInv /\ BusyInv /\ HistoryInv /\ [Next]_vars => HistoryInv' /\ Kept
<1> SUFFICES ASSUME PageInv, BusyInv, HistoryInv, [Next]_vars
             PROVE  HistoryInv' /\ Kept
  OBVIOUS
<1>1. CASE Answers
  BY <1>1, AnswersHistory
<1>2. CASE PopState
  BY <1>2, PopStateHistory
<1>3. CASE Reload
  BY <1>3, ReloadHistory
<1>4. CASE BrowsePlans \/ BrowseRegistries
  BY <1>4, BrowseHistory
<1>5. CASE \/ CreateNew \/ EditCurrent \/ Compile
           \/ \E p \in Plans : ClickPlan(p) \/ EditPlan(p)
           \/ \E p \in Files : DropFile(p)
  BY <1>5, UserHistory
<1>6. CASE \/ ClickCanvas
           \/ \E t \in Tabs : ClickTab(t)
           \/ ClickEnv
           \/ \E e \in UNION {EntriesOf[t] : t \in Tabs} : ClickRow(e)
           \/ \E i \in DOMAIN panels : ClosePanel(panels[i]) \/ DragPanel(panels[i])
  BY <1>6, ViewerHistory DEF Entries
<1>7. CASE UNCHANGED vars
  BY <1>7 DEF HistoryInv, Alone, Follows, Leads, Url, Kept, vars
<1> QED BY <1>1, <1>2, <1>3, <1>4, <1>5, <1>6, <1>7 DEF Next

\* When nothing that shows a plan is in flight, the page shows the plan of the
\* address, the editor's, or an error: clicks, dropped files, Back, Forward and
\* the first load may be answered in any order.
THEOREM PagesUrlShowsPlan == Spec => []UrlShowsPlan
<1>1. PageInv /\ HistoryInv => UrlShowsPlan
  <2> SUFFICES ASSUME PageInv, HistoryInv
               PROVE  UrlShowsPlan
    OBVIOUS
  <2>1. DOMAIN pending = 1..Len(pending)
    BY LenProperties DEF PageInv
  <2> QED BY <2>1 DEF HistoryInv, Leads, Has, IndexAwaited, UrlShowsPlan, Waiting
<1> QED BY <1>1, InitPage, NextPage, InitBusy, NextBusy, InitHistory, NextHistory, PTL DEF Spec

\* Fewer are awaited only when the one that was has been answered.
LEMMA FewerAwaited ==
    ASSUME PageInv, PageInv', Sole(pending), PopsPending(pending') < PopsPending(pending)
    PROVE  Awaits(pending) /\ ~Awaits(pending')
<1> DEFINE A == {i \in 1..Len(pending) : Awaited(pending[i])}
           B == {i \in 1..Len(pending') : Awaited(pending'[i])}
<1>1. /\ DOMAIN pending = 1..Len(pending) /\ Len(pending) \in Nat
      /\ DOMAIN pending' = 1..Len(pending') /\ Len(pending') \in Nat
  BY LenProperties DEF PageInv
<1>2. PopsPending(pending) = Cardinality(A) /\ PopsPending(pending') = Cardinality(B)
  BY <1>1 DEF PopsPending
<1>3. IsFiniteSet(A) /\ IsFiniteSet(B)
  <2>1. IsFiniteSet(1..Len(pending)) /\ IsFiniteSet(1..Len(pending'))
    BY <1>1, FS_Interval
  <2> QED BY <2>1, FS_Subset
<1>4. Cardinality(A) \in Nat /\ Cardinality(B) \in Nat
  BY <1>3, FS_CardinalityType
<1>5. A # {}
  <2>1. Cardinality(A) # 0
    BY <1>2, <1>4
  <2> QED BY <1>3, <2>1, FS_EmptySet
<1>6. PICK i \in A : TRUE
  BY <1>5
<1>7. A = {i}
  BY <1>6 DEF Sole
<1>8. Cardinality(A) = 1
  BY <1>7, FS_Singleton
<1>9. B = {}
  <2>1. Cardinality(B) = 0
    BY <1>2, <1>4, <1>8
  <2> QED BY <1>3, <2>1, FS_EmptySet
<1> QED BY <1>5, <1>9 DEF Awaits

\* Back and Forward keep the entries ahead: the answer they wait for pushes
\* none, unless a second popstate came before it.
THEOREM PagesPopKeepsHistory == Spec => PopKeepsHistory
<1>1. PageInv /\ PageInv' /\ HistoryInv /\ Kept =>
        (PopsPending(pending') < PopsPending(pending)
           => "pop" \in interrupted \/ browser' = browser)
  BY FewerAwaited DEF HistoryInv, Alone, Kept
<1>2. PageInv /\ BusyInv /\ HistoryInv /\ [Next]_vars =>
        [PopsPending(pending') < PopsPending(pending)
           => "pop" \in interrupted \/ browser' = browser]_vars
  BY <1>1, NextPage, NextHistory
<1> QED
  BY <1>2, InitPage, NextPage, InitBusy, NextBusy, InitHistory, NextHistory, PTL
     DEF Spec, PopKeepsHistory
=============================================================================
