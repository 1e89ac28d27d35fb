--------------------------- MODULE RouteFilter_proofs ---------------------------
(***************************************************************************)
(* Proofs about RouteFilter, for any width of addresses, any families,     *)
(* users, services, feeds, filters and networks.                           *)
(***************************************************************************)
EXTENDS RouteFilter, FiniteSetTheorems, WellFoundedInduction, TLAPS

----------------------------------------------------------------------------
(* What is announced is what the tables say *)

Tables ==
    [content  : [Services -> SUBSET AllPrefixes],
     excluded : SUBSET AllPrefixes,
     global   : FilterLists,
     own      : [Users -> FilterLists],
     mode     : [Users -> {"global", "extend", "override"}],
     chosen   : [Users -> SUBSET Services]]

\* After a reconciliation that went through.
CurrentInv ==
    current => \A u \in Users : /\ Desired(db, u).ok
                                /\ announced[u] = Desired(db, u).out

AdviceInv ==
    advice = NoAdvice \/ \E given \in NetworkLists :
                            advice = [of |-> given, is |-> Aggregate(given)]

FilterInv == db \in Tables /\ CurrentInv /\ AdviceInv

\* A reconciliation that goes through leaves what is desired.
LEMMA ReconciliationFacts ==
    ASSUME NEW t, NEW before, Reconciliation(t, before).ok
    PROVE  \A u \in Users :
              /\ Desired(t, u).ok
              /\ Reconciliation(t, before).out[u] = Desired(t, u).out
  BY DEF Reconciliation, Reconciled

\* Edits leave tables.
LEMMA TablesStep ==
    ASSUME db \in Tables, FilterNext
    PROVE  db' \in Tables
  <1>1. /\ \A svc \in Services, ps \in SUBSET AllPrefixes :
               [db EXCEPT !.content[svc] = ps] \in Tables
        /\ \A ps \in SUBSET AllPrefixes : [db EXCEPT !.excluded = ps] \in Tables
        /\ \A lists \in FilterLists : GlobalChanged(db, lists) \in Tables
        /\ \A u \in Users, svcs \in SUBSET Services :
               [db EXCEPT !.chosen[u] = svcs] \in Tables
    BY DEF Tables, GlobalChanged
  <1>2. \A u \in Users, lists \in FilterLists :
           /\ [db EXCEPT !.own[u] = lists] \in Tables
           /\ \A m \in {"global", "extend", "override"} :
                 UserChanged(db, u, m, lists) \in Tables
    BY DEF Tables, UserChanged
  <1>3. /\ Contents \subseteq SUBSET AllPrefixes
        /\ Exclusions \subseteq SUBSET AllPrefixes
        /\ Filters \subseteq FilterLists
    BY FilterData
  <1>4. CASE \/ \E svc \in Services, ps \in Contents : SyncInclude(svc, ps)
             \/ \E ps \in Exclusions : SyncExclude(ps)
             \/ \E lists \in Filters : SetGlobal(lists)
             \/ \E u \in Users, svcs \in SUBSET Services : Choose(u, svcs)
    BY <1>1, <1>3, <1>4 DEF SyncInclude, SyncExclude, SetGlobal, Choose, Edit
  <1>5. CASE \E u \in Users, lists \in Filters :
                \/ SetOwn(u, lists)
                \/ \E m \in {"global", "extend", "override"} : EditUser(u, m, lists)
    BY <1>2, <1>3, <1>5 DEF SetOwn, EditUser, Edit
  <1>6. CASE \E given \in NetworkLists : EnterNetworks(given)
    BY <1>6 DEF EnterNetworks
  <1> QED
    BY <1>4, <1>5, <1>6 DEF FilterNext

\* Whatever is edited is reconciled.
LEMMA EditOrAdvice ==
    ASSUME FilterNext
    PROVE  \/ Edit(db')
           \/ \E given \in NetworkLists : EnterNetworks(given)
  BY DEF FilterNext, SyncInclude, SyncExclude, SetGlobal, SetOwn, EditUser,
         Choose, Edit

\* The inductive invariant holds throughout, whether or not the first
\* reconciliation goes through.
LEMMA FilterInvariant == FilterSpec => []FilterInv
  <1>1. FilterInit => FilterInv
    <2> SUFFICES ASSUME FilterInit PROVE FilterInv
      OBVIOUS
    <2>1. db \in Tables
      <3>1. InitialFilters \in FilterLists
            /\ InitialContent \in [Services -> SUBSET AllPrefixes]
        BY FilterData
      <3>2. [allow |-> {}, deny |-> {}] \in FilterLists
        BY DEF FilterLists
      <3> QED
        BY <3>1, <3>2 DEF FilterInit, Tables
    <2>2. CurrentInv
      <3>1. LET first == Reconciliation(db, [u \in Users |-> {}])
            IN  current = first.ok /\ announced = first.out
        BY DEF FilterInit
      <3> QED
        BY <3>1, ReconciliationFacts DEF CurrentInv
    <2> QED
      BY <2>1, <2>2 DEF FilterInit, FilterInv, AdviceInv
  <1>2. FilterInv /\ [FilterNext]_filterVars => FilterInv'
    <2> SUFFICES ASSUME FilterInv, [FilterNext]_filterVars PROVE FilterInv'
      OBVIOUS
    <2>1. CASE UNCHANGED filterVars
      BY <2>1 DEF FilterInv, CurrentInv, AdviceInv, filterVars
    <2>2. CASE FilterNext /\ Edit(db')
      <3>1. /\ current' = Reconciliation(db', announced).ok
            /\ announced' = Reconciliation(db', announced).out
            /\ advice' = advice
        BY <2>2 DEF Edit
      <3>2. CurrentInv'
        BY <3>1, ReconciliationFacts DEF CurrentInv
      <3> QED
        BY <2>2, <3>1, <3>2, TablesStep DEF FilterInv, AdviceInv
    <2>3. CASE FilterNext /\ \E given \in NetworkLists : EnterNetworks(given)
      <3>1. AdviceInv' /\ CurrentInv'
        BY <2>3 DEF EnterNetworks, AdviceInv, CurrentInv, FilterInv
      <3> QED
        BY <2>3, <3>1, TablesStep DEF FilterInv
    <2> QED
      BY <2>1, <2>2, <2>3, EditOrAdvice
  <1> QED
    BY <1>1, <1>2, PTL DEF FilterSpec

----------------------------------------------------------------------------
(* What is said of a change is what it does *)

\* The two queries for the prefixes of services give the same ones.
LEMMA RoutePrefixes ==
    ASSUME NEW t, NEW u
    PROVE  {r.prefix : r \in Routes(t, u)} =
              Queried(UNION {Entries(t, svc) : svc \in t.chosen[u]})
  <1> DEFINE E(svc) == {e \in Entries(t, svc) : e.bits # 0}
  <1> DEFINE R(svc) == {[prefix |-> p, svc |-> svc] : p \in E(svc)}
  <1>1. Routes(t, u) = UNION {R(svc) : svc \in t.chosen[u]}
    BY DEF Routes
  <1>2. Queried(UNION {Entries(t, svc) : svc \in t.chosen[u]}) =
           UNION {E(svc) : svc \in t.chosen[u]}
    BY DEF Queried
  <1> HIDE DEF E
  <1>3. ASSUME NEW r \in Routes(t, u)
        PROVE  \E svc \in t.chosen[u] : r.prefix \in E(svc)
    BY <1>1
  <1>4. ASSUME NEW svc \in t.chosen[u], NEW p \in E(svc)
        PROVE  \E r \in Routes(t, u) : r.prefix = p
    <2>1. [prefix |-> p, svc |-> svc] \in Routes(t, u)
      BY <1>1
    <2> QED
      BY <2>1
  <1> QED
    BY <1>2, <1>3, <1>4

\* What is counted for a selection, before it is saved, is what is desired
\* afterwards, if the feeds and his filters are the same.
LEMMA CountIsDesired ==
    ASSUME NEW t, NEW then, NEW u,
           then.content = t.content, then.excluded = t.excluded,
           FiltersOf(then, u) = FiltersOf(t, u)
    PROVE  CountPrefixes(t, u, then.chosen[u]) = Desired(then, u)
  <1>1. \A svc : Entries(then, svc) = Entries(t, svc)
    BY DEF Entries
  <1>2. UNION {Entries(t, svc) : svc \in then.chosen[u]} =
           UNION {Entries(then, svc) : svc \in then.chosen[u]}
    BY <1>1
  <1> QED
    BY <1>2, RoutePrefixes DEF CountPrefixes, Desired

\* What is desired depends on the feeds, the selection and the filters only.
LEMMA SameDesired ==
    ASSUME NEW t, NEW then, NEW u,
           then.content = t.content, then.excluded = t.excluded,
           then.chosen = t.chosen, FiltersOf(then, u) = FiltersOf(t, u)
    PROVE  Desired(then, u) = Desired(t, u)
  <1>1. CountPrefixes(t, u, then.chosen[u]) = Desired(then, u)
    BY CountIsDesired
  <1>2. CountPrefixes(t, u, t.chosen[u]) = Desired(t, u)
    BY CountIsDesired
  <1> QED
    BY <1>1, <1>2

\* CountPrefixes and DesiredPrefixes agree on every selection.
LEMMA CountStep ==
    ASSUME FilterInv, FilterInv', FilterNext, current, current'
    PROVE  CountIsDone
  <1> SUFFICES ASSUME NEW u \in Users, db'.chosen[u] # db.chosen[u]
               PROVE  LET said == apiUserCountPrefixes(db, u, db'.chosen[u])
                          then == Counts(announced'[u])
                      IN  /\ said.ok /\ said.count = then
                          /\ said.delta = [f \in Families |->
                                then[f] - Counts(announced[u])[f]]
    BY DEF CountIsDone
  <1>1. /\ db'.content = db.content /\ db'.excluded = db.excluded
        /\ db'.mode = db.mode /\ db'.global = db.global /\ db'.own = db.own
    <2>1. db \in Tables
      BY DEF FilterInv
    <2>2. ASSUME NEW v \in Users, NEW svcs, Choose(v, svcs)
          PROVE  db' = [db EXCEPT !.chosen[v] = svcs]
      BY <2>2 DEF Choose, Edit
    <2>3. \E v \in Users : \E svcs : Choose(v, svcs)
      BY <2>1 DEF FilterNext, SyncInclude, SyncExclude, SetGlobal, SetOwn,
         EditUser, EnterNetworks, Edit, GlobalChanged, UserChanged, Tables
    <2> QED
      BY <2>1, <2>2, <2>3 DEF Tables
  <1>2. FiltersOf(db', u) = FiltersOf(db, u)
    BY <1>1 DEF FiltersOf
  <1>3. CountPrefixes(db, u, db'.chosen[u]) = Desired(db', u)
    BY <1>1, <1>2, CountIsDesired
  <1>4. CountPrefixes(db, u, db.chosen[u]) = Desired(db, u)
    BY CountIsDesired
  <1>5. /\ Desired(db, u).ok /\ announced[u] = Desired(db, u).out
        /\ Desired(db', u).ok /\ announced'[u] = Desired(db', u).out
    BY DEF FilterInv, CurrentInv
  <1> QED
    BY <1>3, <1>4, <1>5 DEF apiUserCountPrefixes

\* A preview tries the change on the tables and compares.
LEMMA TrialIsDone ==
    ASSUME FilterInv, FilterInv', current, current', NEW users \in SUBSET Users,
           \A u \in Users \ users : Desired(db', u) = Desired(db, u)
    PROVE  Foreseen(previewBlastRadius(db, users, db'))
  <1>1. ASSUME NEW u \in Users
        PROVE  /\ announced[u] = Desired(db, u).out
               /\ announced'[u] = Desired(db', u).out
    BY DEF FilterInv, CurrentInv
  <1> QED
    BY <1>1 DEF Foreseen, previewBlastRadius

\* A preview leaves out no user whose announcements change: those with mode
\* "override" do not see the global filters, nobody sees another user's.
LEMMA PreviewStep ==
    ASSUME FilterInv, FilterInv', FilterNext, current, current'
    PROVE  PreviewIsDone
  <1>1. db \in Tables
    BY DEF FilterInv
  <1>2. ASSUME db'.global # db.global
        PROVE  Foreseen(PreviewGlobal(db, db'.global))
    <2>1. db' = GlobalChanged(db, db'.global)
      <3>1. \E lists \in Filters : SetGlobal(lists)
        BY <1>1, <1>2 DEF FilterNext, SyncInclude, SyncExclude, SetOwn, EditUser,
           Choose, EnterNetworks, Edit, UserChanged, Tables
      <3> QED
        BY <1>1, <3>1 DEF SetGlobal, Edit, GlobalChanged, Tables
    <2>2. ASSUME NEW u \in Users \ UsersAffected(db)
          PROVE  Desired(db', u) = Desired(db, u)
      <3>1. /\ db'.content = db.content /\ db'.excluded = db.excluded
            /\ db'.chosen = db.chosen /\ db'.mode = db.mode /\ db'.own = db.own
            /\ db.mode[u] = "override"
        BY <1>1, <2>1 DEF GlobalChanged, UsersAffected, Tables
      <3>2. FiltersOf(db', u) = FiltersOf(db, u)
        BY <3>1 DEF FiltersOf, Effective
      <3> QED
        BY <3>1, <3>2, SameDesired
    <2> QED
      BY <2>1, <2>2, TrialIsDone DEF PreviewGlobal, UsersAffected
  <1>3. ASSUME NEW u \in Users,
               db'.mode[u] # db.mode[u] \/ db'.own[u] # db.own[u]
        PROVE  Foreseen(PreviewUserEdit(db, u, db'.mode[u], db'.own[u]))
    <2>1. \E v \in Users, lists \in Filters :
             \/ SetOwn(v, lists)
             \/ \E m \in {"global", "extend", "override"} : EditUser(v, m, lists)
      BY <1>1, <1>3 DEF FilterNext, SyncInclude, SyncExclude, SetGlobal,
         Choose, EnterNetworks, Edit, GlobalChanged, Tables
    <2>2. db' = UserChanged(db, u, db'.mode[u], db'.own[u])
      <3>1. PICK v \in Users, lists \in Filters :
               \/ SetOwn(v, lists)
               \/ \E m \in {"global", "extend", "override"} : EditUser(v, m, lists)
        BY <2>1
      <3>2. CASE SetOwn(v, lists)
        <4>1. db' = [db EXCEPT !.own[v] = lists]
          BY <3>2 DEF SetOwn, Edit
        <4>2. v = u
          BY <1>1, <1>3, <4>1 DEF Tables
        <4> QED
          BY <1>1, <4>1, <4>2 DEF UserChanged, Tables
      <3>3. CASE \E m \in {"global", "extend", "override"} : EditUser(v, m, lists)
        <4>1. PICK m \in {"global", "extend", "override"} : EditUser(v, m, lists)
          BY <3>3
        <4>2. db' = UserChanged(db, v, m, lists)
          BY <4>1 DEF EditUser, Edit
        <4>3. v = u
          BY <1>1, <1>3, <4>2 DEF UserChanged, Tables
        <4> QED
          BY <1>1, <4>2, <4>3 DEF UserChanged, Tables
      <3> QED
        BY <3>1, <3>2, <3>3
    <2>3. ASSUME NEW v \in Users \ {u}
          PROVE  Desired(db', v) = Desired(db, v)
      <3>1. /\ db'.content = db.content /\ db'.excluded = db.excluded
            /\ db'.chosen = db.chosen /\ db'.global = db.global
            /\ db'.mode[v] = db.mode[v] /\ db'.own[v] = db.own[v]
        BY <1>1, <2>2 DEF UserChanged, Tables
      <3>2. FiltersOf(db', v) = FiltersOf(db, v)
        BY <3>1 DEF FiltersOf
      <3> QED
        BY <3>1, <3>2, SameDesired
    <2> QED
      BY <2>2, <2>3, TrialIsDone DEF PreviewUserEdit
  <1> QED
    BY <1>2, <1>3 DEF PreviewIsDone

\* What a user or an administrator is shown before a change is what the change
\* does: CountPrefixes (store/catalog.go) and previewBlastRadius
\* (store/blastradius.go) say what DesiredPrefixes (store/routes.go) then gives.
THEOREM PromisesAreKept == FilterSpec => PromisedIsDone
  <1>1. FilterInv /\ FilterInv' /\ [FilterNext]_filterVars
        => [current /\ current' => CountIsDone /\ PreviewIsDone]_filterVars
    BY CountStep, PreviewStep
  <1> QED
    BY <1>1, FilterInvariant, PTL DEF FilterSpec, PromisedIsDone
----------------------------------------------------------------------------
(* Loops *)

\* A nonempty set of numbers has a least one.
LEMMA LeastOf ==
    ASSUME NEW T \in SUBSET Nat, T # {}
    PROVE  \E m \in T : \A t \in T : m <= t
<1> DEFINE Lower(t) == {u \in T : u < t}
<1> DEFINE Sets == {Lower(t) : t \in T}
<1>0. \A t \in T : t \in Nat /\ t \in Int
    OBVIOUS
<1>1. Sets \subseteq FiniteSubsetsOf(T) /\ Sets # {}
  <2>1. ASSUME NEW t \in T PROVE Lower(t) \in FiniteSubsetsOf(T)
    <3>1. IsFiniteSet(0..t)
      BY <1>0, FS_Interval
    <3>2. ASSUME NEW u \in Lower(t) PROVE u \in 0..t
      <4>1. u \in Int /\ t \in Int /\ 0 <= u /\ u < t
        BY <1>0
      <4>. QED
        BY <4>1
    <3>3. IsFiniteSet(Lower(t))
      BY <3>1, <3>2, FS_Subset
    <3>. QED
      BY <3>3 DEF FiniteSubsetsOf
  <2> HIDE DEF Lower
  <2>. QED
    BY <2>1
<1>2. PICK X \in Sets : \A Y \in Sets : ~(<<Y, X>> \in StrictSubsetOrdering(T))
  <2> HIDE DEF Sets
  <2>. QED
    BY <1>1, FS_StrictSubsetOrderingWellFounded, WFMin
<1>3. PICK m \in T : X = Lower(m)
    OBVIOUS
<1>4. ASSUME NEW u \in T, ~(m <= u) PROVE FALSE
  <2>1. /\ u < m /\ ~(u < u)
        /\ \A w \in T : w < u => w < m
    BY <1>0, <1>4
  <2>2. Lower(u) \subseteq Lower(m) /\ u \in Lower(m) /\ u \notin Lower(u)
    BY <2>1
  <2>3. <<Lower(u), X>> \in StrictSubsetOrdering(T)
    BY <1>3, <2>2 DEF StrictSubsetOrdering
  <2>. QED
    BY <1>2, <2>3
<1>. QED
    BY <1>4

\* What holds before the first step and after each holds up to the last.
LEMMA AlongList ==
    ASSUME NEW L \in Nat, NEW S, 0 \in S,
           \A i \in 1..L : i - 1 \in S => i \in S
    PROVE  \A i \in 0..L : i \in S
<1> DEFINE T == (0..L) \ S
<1>1. SUFFICES ASSUME T # {} PROVE FALSE
    OBVIOUS
<1>2. PICK m \in T : \A t \in T : m <= t
  <2>1. T \in SUBSET Nat
    OBVIOUS
  <2> HIDE DEF T
  <2>. QED
    BY <1>1, <2>1, LeastOf
<1>3. m \in 1..L /\ m - 1 \in 0..L /\ ~(m <= m - 1)
    OBVIOUS
<1>4. m - 1 \in S
    BY <1>2, <1>3
<1>. QED
    BY <1>3, <1>4

\* A loop from b to l is a function: values of V, and what each step makes of
\* them.
IsLoop(b, l, V, first, step, d) ==
    /\ d \in [b..l -> V]
    /\ d[b] = first
    /\ \A i \in (b + 1)..l : d[i] = step[i][d[i - 1]]

\* A function that is defined step by step exists, so it is what its definition
\* says: by induction on the number of steps.
LEMMA LoopExists ==
    ASSUME NEW b \in Nat, NEW l \in Nat, b <= l, NEW V, NEW first \in V,
           NEW step \in [(b + 1)..l -> [V -> V]]
    PROVE  \E d : IsLoop(b, l, V, first, step, d)
<1> DEFINE Run(n, d) ==
        /\ d \in [b..(b + n) -> V]
        /\ \A i \in b..(b + n) :
              d[i] = IF i = b THEN first ELSE step[i][d[i - 1]]
<1> DEFINE S == {n \in 0..(l - b) : \E d : Run(n, d)}
<1>1. 0 \in S
  <2>1. Run(0, [i \in b..(b + 0) |-> first])
    OBVIOUS
  <2> HIDE DEF Run
  <2>. QED
    BY <2>1
<1>2. ASSUME NEW n \in 1..(l - b), n - 1 \in S PROVE n \in S
  <2>1. PICK d : Run(n - 1, d)
    BY <1>2
  <2> DEFINE m == b + n
  <2> DEFINE e == [i \in b..m |-> IF i < m THEN d[i] ELSE step[m][d[m - 1]]]
  <2>2. /\ m \in (b + 1)..l /\ m - 1 \in b..(b + (n - 1))
        /\ b + (n - 1) = m - 1 /\ m \in Nat
    OBVIOUS
  <2>3. /\ d \in [b..(m - 1) -> V]
        /\ \A i \in b..(m - 1) :
              d[i] = IF i = b THEN first ELSE step[i][d[i - 1]]
    BY <2>1, <2>2
  <2>4. step[m][d[m - 1]] \in V
    BY <2>2, <2>3
  <2> HIDE DEF m
  <2>5. e \in [b..m -> V]
    BY <2>2, <2>3, <2>4
  <2>6. ASSUME NEW i \in b..m
        PROVE  e[i] = IF i = b THEN first ELSE step[i][e[i - 1]]
    <3>1. CASE i < m
      <4>1. /\ i \in b..(m - 1) /\ e[i] = d[i]
            /\ i # b => i - 1 \in b..m /\ i - 1 < m /\ e[i - 1] = d[i - 1]
        BY <2>2, <3>1
      <4>. QED
        BY <2>3, <4>1
    <3>2. CASE i = m
      <4>1. e[m] = step[m][d[m - 1]] /\ e[m - 1] = d[m - 1] /\ m # b
        BY <2>2
      <4>. QED
        BY <3>2, <4>1
    <3>. QED
      BY <2>2, <3>1, <3>2
  <2>7. Run(n, e)
    BY <2>5, <2>6 DEF m
  <2> HIDE DEF Run
  <2>. QED
    BY <2>7
<1>3. \A n \in 0..(l - b) : n \in S
  <2>1. l - b \in Nat
    OBVIOUS
  <2> HIDE DEF S
  <2>. QED
    BY <1>1, <1>2, <2>1, AlongList
<1>4. PICK d : Run(l - b, d)
  <2>1. l - b \in 0..(l - b)
    OBVIOUS
  <2> HIDE DEF Run
  <2>. QED
    BY <1>3, <2>1
<1>5. b + (l - b) = l
    OBVIOUS
<1>6. IsLoop(b, l, V, first, step, d)
    BY <1>4, <1>5 DEF IsLoop
<1>. QED
    BY <1>6

----------------------------------------------------------------------------
(* Powers of two *)

\* The powers of two are what their definition says.
LEMMA PowFacts ==
    /\ Width \in Nat /\ Pow \in [0..Width -> Nat \ {0}]
    /\ Pow[0] = 1 /\ \A n \in 1..Width : Pow[n] = 2 * Pow[n - 1]
  <1>1. Width \in Nat
    BY FilterAssumption
  <1> DEFINE V == Nat \ {0}
  <1> DEFINE step == [i \in 1..Width |-> [x \in V |-> 2 * x]]
  <1>2. step \in [(0 + 1)..Width -> [V -> V]]
    OBVIOUS
  <1>3. 0 \in Nat /\ 1 \in V /\ 0 <= Width
    BY <1>1
  <1>4. PICK d : IsLoop(0, Width, V, 1, step, d)
    <2> HIDE DEF V, step
    <2> QED
      BY <1>1, <1>2, <1>3, LoopExists
  <1>5. d = [i \in 0..Width |-> IF i = 0 THEN 1 ELSE 2 * d[i - 1]]
    <2>1. ASSUME NEW i \in 1..Width PROVE d[i] = 2 * d[i - 1]
      <3>1. d[i - 1] \in V /\ i \in (0 + 1)..Width
        BY <1>1, <1>4 DEF IsLoop
      <3> QED
        BY <1>4, <3>1 DEF IsLoop
    <2> QED
      BY <1>1, <1>4, <2>1 DEF IsLoop
  <1>6. Pow = [i \in 0..Width |-> IF i = 0 THEN 1 ELSE 2 * Pow[i - 1]]
    BY <1>5 DEF Pow
  <1>7. /\ DOMAIN Pow = 0..Width /\ Pow[0] = 1
        /\ \A n \in 1..Width : Pow[n] = 2 * Pow[n - 1]
    BY <1>1, <1>6
  <1> DEFINE S == {n \in 0..Width : Pow[n] \in Nat \ {0}}
  <1>8. 0 \in S /\ \A i \in 1..Width : i - 1 \in S => i \in S
    BY <1>1, <1>7
  <1>9. \A i \in 0..Width : i \in S
    <2> HIDE DEF S
    <2> QED
      BY <1>1, <1>8, AlongList
  <1> QED
    BY <1>1, <1>6, <1>7, <1>9

\* The next power is twice the last.
LEMMA PowNext ==
    ASSUME NEW n \in Nat, n < Width
    PROVE  Pow[n + 1] = 2 * Pow[n]
  <1>1. n + 1 \in 1..Width /\ (n + 1) - 1 = n
    BY PowFacts
  <1>2. Pow[n + 1] = 2 * Pow[(n + 1) - 1]
    BY <1>1, PowFacts
  <1> QED
    BY <1>1, <1>2

\* A larger power is a multiple of a smaller one.
LEMMA PowMultiple ==
    ASSUME NEW m \in 0..Width, NEW n \in m..Width
    PROVE  \E k \in Nat \ {0} : Pow[n] = k * Pow[m]
  <1> DEFINE S == {i \in 0..(Width - m) :
                     \E k \in Nat \ {0} : Pow[m + i] = k * Pow[m]}
  <1>1. 0 \in S
    <2>1. Pow[m + 0] = 1 * Pow[m]
      BY PowFacts
    <2> QED
      BY <2>1, PowFacts
  <1>2. ASSUME NEW i \in 1..(Width - m), i - 1 \in S PROVE i \in S
    <2>1. PICK k \in Nat \ {0} : Pow[m + (i - 1)] = k * Pow[m]
      BY <1>2
    <2>2. /\ m + i \in 1..Width /\ (m + i) - 1 = m + (i - 1)
          /\ Pow[m] \in Nat /\ i \in 0..(Width - m)
      BY PowFacts
    <2>3. Pow[m + i] = 2 * (k * Pow[m])
      BY <2>1, <2>2, PowFacts
    <2>4. 2 * (k * Pow[m]) = (2 * k) * Pow[m] /\ 2 * k \in Nat \ {0}
      BY <2>2
    <2> QED
      BY <2>2, <2>3, <2>4
  <1>3. \A i \in 0..(Width - m) : i \in S
    <2>1. Width - m \in Nat
      BY PowFacts
    <2> HIDE DEF S
    <2> QED
      BY <1>1, <1>2, <2>1, AlongList
  <1>4. n - m \in 0..(Width - m) /\ m + (n - m) = n
    BY PowFacts
  <1> QED
    BY <1>3, <1>4

----------------------------------------------------------------------------
(* Numbers *)

\* Quotient and remainder.
LEMMA Division ==
    ASSUME NEW a \in Nat, NEW b \in Nat \ {0}
    PROVE  \E k \in Nat : a = k * b + (a % b) /\ a % b \in 0..(b - 1)
  <1> DEFINE q == a \div b
  <1> DEFINE r == a % b
  <1>1. a = b * q + r
    BY Z3
  <1>2. q \in Nat /\ r \in 0..(b - 1)
    OBVIOUS
  <1>3. \E k \in Nat : a = k * b + r /\ r \in 0..(b - 1)
    <2> HIDE DEF q, r
    <2>1. a = q * b + r
      BY <1>1, <1>2
    <2> QED
      BY <1>2, <2>1
  <1> QED
    BY <1>3

\* The remainder of a multiple and a rest.
LEMMA Remainder ==
    ASSUME NEW k \in Nat, NEW b \in Nat \ {0}, NEW r \in 0..(b - 1)
    PROVE  ((k * b) + r) % b = r
  OBVIOUS

\* Products with a natural number keep the order.
LEMMA Times ==
    ASSUME NEW k \in Int, NEW j \in Int, NEW b \in Nat, k <= j
    PROVE  k * b \in Int /\ j * b \in Int /\ k * b <= j * b
  OBVIOUS

\* A block of s that starts at a multiple of s lies in one of a multiple of s
\* or beside it.
LEMMA BlockInBlock ==
    ASSUME NEW s \in Nat \ {0}, NEW m \in Nat \ {0}, NEW k \in Nat, NEW j \in Nat
    PROVE  LET x == k * (m * s)
               y == j * s
           IN  \/ x <= y /\ y + s <= x + m * s
               \/ y + s <= x
               \/ x + m * s <= y
  <1> DEFINE x == k * (m * s)
  <1> DEFINE y == j * s
  <1>1. /\ x = (k * m) * s /\ x + m * s = (k * m + m) * s
        /\ y + s = (j + 1) * s
        /\ k * m \in Nat
    OBVIOUS
  <1>2. CASE j < k * m
    <2>1. j + 1 <= k * m
      BY <1>1, <1>2
    <2> QED
      BY <1>1, <2>1, Times
  <1>3. CASE k * m + m <= j
    BY <1>1, <1>3, Times
  <1>4. CASE k * m <= j /\ j + 1 <= k * m + m
    BY <1>1, <1>4, Times
  <1> QED
    BY <1>1, <1>2, <1>3, <1>4

----------------------------------------------------------------------------
(* Prefixes are blocks: one lies in another or they are apart *)

\* A family has as many addresses as the largest power.
LEMMA SpaceFacts == Space \in Nat \ {0} /\ Space = Pow[Width]
  BY PowFacts DEF Space

\* The shape of a prefix.
LEMMA PrefixFacts ==
    ASSUME NEW p \in AllPrefixes
    PROVE  /\ p = [fam |-> p.fam, addr |-> p.addr, bits |-> p.bits]
           /\ p.fam \in Families /\ p.fam \in Nat
           /\ p.addr \in Nat /\ p.bits \in 0..Width /\ p.bits \in Nat
           /\ Width - p.bits \in 0..Width
           /\ Size(p) \in Nat \ {0} /\ Size(p) = Pow[Width - p.bits]
           /\ \E k \in Nat : p.addr = k * Size(p)
           /\ lastAddr(p) \in Nat /\ p.addr <= lastAddr(p) /\ lastAddr(p) < Space
           /\ lastAddr(p) = p.addr + Size(p) - 1
  <1>1. /\ p = [fam |-> p.fam, addr |-> p.addr, bits |-> p.bits]
        /\ p.fam \in Families /\ p.addr \in 0..(Space - 1) /\ p.bits \in 0..Width
        /\ p.addr % Pow[Width - p.bits] = 0
    BY DEF AllPrefixes
  <1>2. p.fam \in Nat
    BY <1>1, FilterAssumption
  <1>3. /\ p.addr \in Nat /\ p.addr < Space
        /\ p.bits \in Nat /\ Width - p.bits \in 0..Width
    BY <1>1, SpaceFacts, PowFacts
  <1> DEFINE s == Pow[Width - p.bits]
  <1>4. s \in Nat \ {0} /\ Size(p) = s
    BY <1>3, PowFacts DEF Size
  <1>5. p.addr % s = 0
    BY <1>1
  <1>6. PICK m \in Nat \ {0} : Space = m * s
    <2>1. Width - p.bits \in 0..Width /\ Width \in (Width - p.bits)..Width
      BY <1>3, PowFacts
    <2> QED
      BY <2>1, PowMultiple, SpaceFacts
  <1> HIDE DEF s
  <1>7. PICK k \in Nat : p.addr = k * s
    <2>1. PICK k \in Nat : p.addr = k * s + (p.addr % s)
      BY <1>3, <1>4, Division
    <2>2. k * s \in Nat
      BY <1>4
    <2> QED
      BY <1>5, <2>1, <2>2
  <1>8. k + 1 <= m
    <2>1. SUFFICES ASSUME m <= k PROVE FALSE
      BY <1>6, <1>7
    <2> QED
      BY <1>3, <1>4, <1>6, <1>7, <2>1, Times
  <1>9. (k + 1) * s <= m * s /\ (k + 1) * s = k * s + s
    BY <1>4, <1>6, <1>7, <1>8, Times
  <1>10. lastAddr(p) = p.addr + s - 1
    BY <1>4 DEF lastAddr
  <1>11. lastAddr(p) \in Nat /\ p.addr <= lastAddr(p) /\ lastAddr(p) < Space
    BY <1>3, <1>4, <1>6, <1>7, <1>9, <1>10, SpaceFacts
  <1>12. \E j \in Nat : p.addr = j * Size(p)
    BY <1>4, <1>7
  <1> QED
    BY <1>1, <1>2, <1>3, <1>4, <1>10, <1>11, <1>12 DEF s

Within(q, p) ==
    p.fam = q.fam /\ p.addr <= q.addr /\ lastAddr(q) <= lastAddr(p)
Apart(p, q) ==
    p.fam # q.fam \/ lastAddr(p) < q.addr \/ lastAddr(q) < p.addr

\* Two prefixes nest or have no address in common.
LEMMA Nested ==
    ASSUME NEW p \in AllPrefixes, NEW q \in AllPrefixes, p.bits <= q.bits
    PROVE  IF Holds(p, q) THEN Within(q, p) ELSE Apart(p, q)
  <1> DEFINE s == Size(q)
  <1>1. PICK m \in Nat \ {0} : Size(p) = m * s
    <2>1. /\ Width - q.bits \in 0..Width
          /\ Width - p.bits \in (Width - q.bits)..Width
      <3>1. p.bits \in 0..Width /\ q.bits \in 0..Width /\ Width \in Nat
        BY PrefixFacts, PowFacts
      <3> QED
        BY <3>1
    <2> QED
      BY <2>1, PowMultiple, PrefixFacts
  <1>2. PICK k \in Nat : p.addr = k * Size(p)
    BY PrefixFacts
  <1>3. PICK j \in Nat : q.addr = j * s
    BY PrefixFacts
  <1>4. s \in Nat \ {0} /\ p.addr \in Nat /\ q.addr \in Nat /\ Size(p) \in Nat \ {0}
    BY PrefixFacts
  <1> HIDE DEF s
  <1>5. \/ p.addr <= q.addr /\ q.addr + s <= p.addr + Size(p)
        \/ q.addr + s <= p.addr
        \/ p.addr + Size(p) <= q.addr
    BY <1>1, <1>2, <1>3, <1>4, BlockInBlock
  <1>6. lastAddr(p) = p.addr + Size(p) - 1 /\ lastAddr(q) = q.addr + s - 1
    BY PrefixFacts DEF s
  <1> QED
    BY <1>4, <1>5, <1>6 DEF Holds, Within, Apart

\* Two of the same length are the same or apart.
LEMMA SameLength ==
    ASSUME NEW p \in AllPrefixes, NEW q \in AllPrefixes, p.bits = q.bits,
           ~Apart(p, q)
    PROVE  p = q
  <1>1. Within(q, p) /\ Within(p, q)
    <2>1. p.bits <= q.bits /\ q.bits <= p.bits
      BY PrefixFacts
    <2>2. ~Apart(q, p)
      BY DEF Apart
    <2> QED
      BY <2>1, <2>2, Nested
  <1>2. p.fam = q.fam /\ p.addr = q.addr
    BY <1>1, PrefixFacts DEF Within
  <1> QED
    BY <1>2, PrefixFacts

\* A wider one holds what starts in it.
LEMMA HoldsFacts ==
    ASSUME NEW p \in AllPrefixes, NEW q \in AllPrefixes
    PROVE  /\ Within(q, p) => Holds(p, q) /\ p.bits <= q.bits
           /\ Holds(p, q) => ~Apart(p, q)
           /\ p.bits <= q.bits /\ ~Apart(p, q) => Within(q, p)
           /\ Holds(p, q) /\ q.bits < p.bits => Within(p, q)
           /\ Apart(p, q) <=> Apart(q, p)
           /\ Within(p, p)
  <1>1. /\ p.addr \in Nat /\ q.addr \in Nat /\ lastAddr(p) \in Nat
        /\ lastAddr(q) \in Nat /\ p.addr <= lastAddr(p) /\ q.addr <= lastAddr(q)
        /\ p.bits \in Nat /\ q.bits \in Nat
    BY PrefixFacts
  <1>2. Holds(p, q) => ~Apart(p, q)
    BY <1>1 DEF Holds, Apart
  <1>3. p.bits <= q.bits /\ ~Apart(p, q) => Within(q, p)
    BY Nested
  <1>4. q.bits < p.bits /\ ~Apart(p, q) => Within(p, q)
    BY <1>1, Nested DEF Apart
  <1>5. Within(q, p) => Holds(p, q)
    BY <1>1 DEF Within, Holds
  <1>6. ASSUME Within(q, p), q.bits < p.bits PROVE FALSE
    <2>1. Within(p, q)
      BY <1>2, <1>4, <1>5, <1>6
    <2>2. lastAddr(p) = lastAddr(q) /\ p.addr = q.addr
      BY <1>1, <1>6, <2>1 DEF Within
    <2>3. Size(p) = Size(q)
      BY <2>2, PrefixFacts
    <2>4. PICK k \in Nat \ {0} : Size(q) = k * (2 * Size(p))
      <3> DEFINE n == Width - p.bits
      <3>1. n \in 0..Width /\ n + 1 \in 1..Width /\ Width - q.bits \in (n + 1)..Width
        <4>1. p.bits \in 0..Width /\ q.bits \in 0..Width /\ Width \in Nat
          BY PrefixFacts, PowFacts
        <4> QED
          BY <1>6, <4>1
      <3>2. Pow[n + 1] = 2 * Pow[n]
        <4>1. n \in Nat /\ n < Width
          BY <3>1, PowFacts
        <4> HIDE DEF n
        <4> QED
          BY <4>1, PowNext
      <3> QED
        BY <3>1, <3>2, PowMultiple, PrefixFacts
    <2> QED
      BY <2>3, <2>4, PrefixFacts
  <1> QED
    BY <1>1, <1>2, <1>3, <1>4, <1>5, <1>6 DEF Apart, Within

\* A record of a multiple of its size is a prefix.
LEMMA MakePrefix ==
    ASSUME NEW f \in Families, NEW b \in 0..Width, NEW k \in Nat,
           k * Pow[Width - b] < Space
    PROVE  [fam |-> f, addr |-> k * Pow[Width - b], bits |-> b] \in AllPrefixes
  <1> DEFINE s == Pow[Width - b]
  <1>1. Width - b \in 0..Width /\ s \in Nat \ {0}
    BY PowFacts
  <1> HIDE DEF s
  <1>2. k * s \in 0..(Space - 1)
    BY <1>1, SpaceFacts DEF s
  <1>3. (k * s) % s = 0
    BY <1>1
  <1> QED
    BY <1>2, <1>3 DEF AllPrefixes, s

\* The parent of a prefix is the one of its length that holds it.
LEMMA ParentFacts ==
    ASSUME NEW p \in AllPrefixes, NEW b \in 0..p.bits
    PROVE  /\ Parent(p, b) \in AllPrefixes
           /\ Parent(p, b).fam = p.fam /\ Parent(p, b).bits = b
           /\ Within(p, Parent(p, b))
           /\ \A q \in AllPrefixes :
                 q.bits = b /\ ~Apart(p, q) => q = Parent(p, b)
  <1> DEFINE s == Pow[Width - b]
  <1> DEFINE r == p.addr % s
  <1> DEFINE q == Parent(p, b)
  <1>1. /\ b \in 0..Width /\ b <= p.bits /\ Width - b \in 0..Width
        /\ s \in Nat \ {0} /\ p.addr \in Nat /\ p.addr < Space
    <2>1. b \in 0..Width /\ b <= p.bits /\ Width - b \in 0..Width
      BY PrefixFacts, PowFacts
    <2>2. s \in Nat \ {0}
      BY <2>1, PowFacts
    <2>3. p.addr \in Nat /\ p.addr < Space
      BY PrefixFacts, SpaceFacts
    <2> QED
      BY <2>1, <2>2, <2>3
  <1>2. q = [fam |-> p.fam, addr |-> p.addr - r, bits |-> b]
    <2>1. p = [fam |-> p.fam, addr |-> p.addr, bits |-> p.bits]
      BY PrefixFacts
    <2> HIDE DEF r
    <2>2. q = [p EXCEPT !.addr = p.addr - r, !.bits = b]
      BY DEF Parent, r
    <2> QED
      BY <2>1, <2>2
  <1>3. PICK k \in Nat : p.addr = k * s + r /\ r \in 0..(s - 1)
    BY <1>1, Division
  <1> HIDE DEF r
  <1>4. k * s \in Nat /\ p.addr - r = k * s /\ k * s < Space
    BY <1>1, <1>3, SpaceFacts
  <1>5. q = [fam |-> p.fam, addr |-> k * s, bits |-> b]
    BY <1>2, <1>4
  <1>6. q \in AllPrefixes
    BY <1>1, <1>4, <1>5, MakePrefix, PrefixFacts
  <1>7. q.fam = p.fam /\ q.bits = b /\ q.addr = k * s /\ Size(q) = s
    BY <1>5 DEF Size
  <1> HIDE DEF q, s
  <1>8. Holds(q, p)
    BY <1>1, <1>3, <1>4, <1>6, <1>7, PrefixFacts DEF Holds
  <1>9. Within(p, q)
    BY <1>1, <1>6, <1>7, <1>8, Nested
  <1>10. ASSUME NEW o \in AllPrefixes, o.bits = b, ~Apart(p, o)
         PROVE  o = q
    <2>1. Within(p, o)
      BY <1>1, <1>10, HoldsFacts
    <2>2. ~Apart(o, q)
      BY <1>6, <1>9, <2>1, PrefixFacts DEF Within, Apart
    <2> QED
      BY <1>6, <1>7, <1>10, <2>2, SameLength
  <1> QED
    BY <1>6, <1>7, <1>9, <1>10 DEF q

\* A prefix and its sibling are the halves of their parent.
LEMMA SiblingFacts ==
    ASSUME NEW p \in AllPrefixes, p.bits # 0
    PROVE  LET up == Parent(p, p.bits - 1)
               q  == Sibling(p)
           IN  /\ q \in AllPrefixes /\ q.fam = p.fam /\ q.bits = p.bits
               /\ Apart(p, q) /\ Within(p, up) /\ Within(q, up)
               /\ \A a \in up.addr..lastAddr(up) :
                     a \in p.addr..lastAddr(p) \/ a \in q.addr..lastAddr(q)
  <1> DEFINE up == Parent(p, p.bits - 1)
  <1> DEFINE q == Sibling(p)
  <1> DEFINE s == Size(p)
  <1>1. /\ p.bits - 1 \in 0..p.bits /\ p.bits \in 1..Width /\ Width \in Nat
        /\ s \in Nat \ {0} /\ p.addr \in Nat
        /\ p = [fam |-> p.fam, addr |-> p.addr, bits |-> p.bits]
    BY PrefixFacts, PowFacts
  <1>2. /\ up \in AllPrefixes /\ up.bits = p.bits - 1 /\ up.fam = p.fam
        /\ Within(p, up)
    BY <1>1, ParentFacts
  <1>3. Size(up) = 2 * s
    <2> DEFINE n == Width - p.bits
    <2>1. n \in Nat /\ n < Width /\ Width - (p.bits - 1) = n + 1
      BY <1>1
    <2>2. Size(up) = Pow[Width - (p.bits - 1)] /\ s = Pow[n]
      BY <1>2 DEF Size
    <2> HIDE DEF n, s, up
    <2> QED
      BY <2>1, <2>2, PowNext
  <1>4. PICK j \in Nat : up.addr = j * (2 * s)
    BY <1>2, <1>3, PrefixFacts
  <1>5. PICK k \in Nat : p.addr = k * s
    BY PrefixFacts
  <1>6. q = [fam |-> p.fam, bits |-> p.bits,
             addr |-> IF p.addr % (2 * s) = 0 THEN p.addr + s ELSE p.addr - s]
    BY <1>1 DEF Sibling
  <1>7. up.addr = p.addr \/ up.addr + s = p.addr
    <2>1. up.addr <= p.addr /\ p.addr + s <= up.addr + 2 * s
      <3>1. /\ up.addr <= p.addr /\ lastAddr(p) <= lastAddr(up)
            /\ lastAddr(p) = p.addr + s - 1 /\ lastAddr(up) = up.addr + 2 * s - 1
        BY <1>2, <1>3, PrefixFacts DEF Within
      <3>2. up.addr \in Nat
        BY <1>2, PrefixFacts
      <3> HIDE DEF up, s
      <3> QED
        BY <1>1, <3>1, <3>2
    <2> HIDE DEF up, s
    <2>2. up.addr = (2 * j) * s
      BY <1>1, <1>4
    <2>3. \/ k <= 2 * j /\ k >= 2 * j
          \/ k = 2 * j + 1
          \/ k + 1 <= 2 * j
          \/ 2 * j + 2 <= k
      OBVIOUS
    <2>4. CASE k + 1 <= 2 * j
      <3>1. (k + 1) * s <= (2 * j) * s
        <4>1. k + 1 \in Int /\ 2 * j \in Int /\ s \in Nat
          BY <1>1
        <4> QED
          BY <2>4, <4>1, Times
      <3>2. (k + 1) * s = k * s + s /\ k * s \in Nat
        BY <1>1
      <3> QED
        BY <1>1, <1>5, <2>1, <2>2, <3>1, <3>2
    <2>5. CASE 2 * j + 2 <= k
      <3>1. (2 * j + 2) * s <= k * s
        <4>1. k \in Int /\ 2 * j + 2 \in Int /\ s \in Nat
          BY <1>1
        <4> QED
          BY <2>5, <4>1, Times
      <3>2. (2 * j + 2) * s = (2 * j) * s + 2 * s /\ (2 * j) * s \in Nat
        BY <1>1
      <3> QED
        BY <1>1, <1>5, <2>1, <2>2, <3>1, <3>2
    <2>6. CASE k = 2 * j
      BY <1>5, <2>2, <2>6
    <2>7. CASE k = 2 * j + 1
      <3>1. (2 * j + 1) * s = (2 * j) * s + s
        BY <1>1
      <3> QED
        BY <1>5, <2>2, <2>7, <3>1
    <2> QED
      BY <2>3, <2>4, <2>5, <2>6, <2>7
  <1>8. p.addr % (2 * s) = 0 <=> up.addr = p.addr
    <2>1. 2 * s \in Nat \ {0} /\ s \in 0..(2 * s - 1) /\ s # 0
      BY <1>1
    <2> HIDE DEF up, s
    <2>2. (j * (2 * s)) % (2 * s) = 0
      BY <2>1
    <2>3. ((j * (2 * s)) + s) % (2 * s) = s
      BY <2>1, Remainder
    <2> QED
      BY <1>4, <1>7, <2>1, <2>2, <2>3
  <1>9. q.addr = IF up.addr = p.addr THEN up.addr + s ELSE up.addr
    <2> HIDE DEF up, s, q
    <2>1. up.addr \in Nat
      BY <1>2, PrefixFacts
    <2> QED
      BY <1>1, <1>6, <1>7, <1>8, <2>1
  <1>10. \E i \in Nat : q.addr = i * s
    <2> HIDE DEF up, s, q
    <2>1. j * (2 * s) = (2 * j) * s /\ (2 * j) * s + s = (2 * j + 1) * s
      BY <1>1
    <2> QED
      BY <1>4, <1>9, <2>1
  <1>11. q.addr < Space
    <2>1. lastAddr(up) = up.addr + 2 * s - 1 /\ lastAddr(up) < Space /\ up.addr \in Nat
      BY <1>2, <1>3, PrefixFacts
    <2> HIDE DEF up, s, q
    <2> QED
      BY <1>1, <1>9, <2>1, SpaceFacts
  <1>12. q \in AllPrefixes /\ q.fam = p.fam /\ q.bits = p.bits /\ Size(q) = s
    <2>1. PICK i \in Nat : q.addr = i * s
      BY <1>10
    <2>2. q = [fam |-> p.fam, addr |-> q.addr, bits |-> p.bits]
      BY <1>6
    <2>3. s = Pow[Width - p.bits] /\ p.bits \in 0..Width /\ p.fam \in Families
      BY PrefixFacts
    <2>4. q.bits = p.bits /\ q.fam = p.fam
      BY <1>6
    <2>5. Size(q) = s
      BY <2>3, <2>4 DEF Size
    <2> HIDE DEF q, s
    <2>6. q \in AllPrefixes
      BY <1>11, <2>1, <2>2, <2>3, MakePrefix
    <2> QED
      BY <2>4, <2>5, <2>6
  <1>13. /\ lastAddr(q) = q.addr + s - 1 /\ lastAddr(p) = p.addr + s - 1
         /\ lastAddr(up) = up.addr + 2 * s - 1
         /\ up.addr \in Nat
    BY <1>2, <1>3, <1>12, PrefixFacts
  <1> HIDE DEF up, q, s
  <1>14. Apart(p, q) /\ Within(q, up)
    BY <1>1, <1>2, <1>7, <1>9, <1>12, <1>13 DEF Apart, Within
  <1>15. \A a \in up.addr..lastAddr(up) :
            a \in p.addr..lastAddr(p) \/ a \in q.addr..lastAddr(q)
    BY <1>1, <1>7, <1>9, <1>13
  <1> QED
    BY <1>2, <1>12, <1>14, <1>15 DEF up, q

----------------------------------------------------------------------------
(* The addresses of prefixes *)

Block(p) == {<<p.fam, a>> : a \in p.addr..lastAddr(p)}
Disjoint(ps) == \A p, q \in ps : p # q => Apart(p, q)

\* An address of prefixes is in the block of one of them.
LEMMA AddressesOf ==
    ASSUME NEW ps
    PROVE  /\ \A x : x \in Addresses(ps) <=> \E p \in ps : x \in Block(p)
           /\ \A p \in ps : Block(p) \subseteq Addresses(ps)
  BY DEF Addresses, Block

\* Addresses of no, of one, and of more prefixes.
LEMMA AddressesFacts ==
    /\ Addresses({}) = {}
    /\ \A p : Addresses({p}) = Block(p)
    /\ \A ps, qs : Addresses(ps \cup qs) = Addresses(ps) \cup Addresses(qs)
    /\ \A ps, qs : ps \subseteq qs => Addresses(ps) \subseteq Addresses(qs)
  BY DEF Addresses, Block

\* A prefix more adds its block.
LEMMA AddressesOfOneMore ==
    ASSUME NEW ps, NEW p
    PROVE  Addresses(ps \cup {p}) = Addresses(ps) \cup Block(p)
  BY DEF Addresses, Block

\* Inclusion and disjointness of blocks.
LEMMA BlockFacts ==
    ASSUME NEW p \in AllPrefixes, NEW q \in AllPrefixes
    PROVE  /\ Block(p) # {}
           /\ Within(q, p) => Block(q) \subseteq Block(p)
           /\ Apart(p, q) <=> Block(p) \cap Block(q) = {}
           /\ Block(q) \subseteq Block(p) => Within(q, p)
  <1>1. /\ p.addr \in Nat /\ q.addr \in Nat /\ lastAddr(p) \in Nat
        /\ lastAddr(q) \in Nat /\ p.addr <= lastAddr(p) /\ q.addr <= lastAddr(q)
    BY PrefixFacts
  <1>2. <<p.fam, p.addr>> \in Block(p)
    BY <1>1 DEF Block
  <1>3. Within(q, p) => Block(q) \subseteq Block(p)
    BY <1>1 DEF Within, Block
  <1>4. Apart(p, q) => Block(p) \cap Block(q) = {}
    BY <1>1 DEF Apart, Block
  <1>5. ASSUME ~Apart(p, q) PROVE Block(p) \cap Block(q) # {}
    <2>1. p.fam = q.fam /\ q.addr <= lastAddr(p) /\ p.addr <= lastAddr(q)
      BY <1>1, <1>5 DEF Apart
    <2>2. CASE p.addr <= q.addr
      <3>1. <<p.fam, q.addr>> \in Block(p) /\ <<p.fam, q.addr>> \in Block(q)
        BY <1>1, <2>1, <2>2 DEF Block
      <3> QED
        BY <3>1
    <2>3. CASE q.addr <= p.addr
      <3>1. <<p.fam, p.addr>> \in Block(p) /\ <<p.fam, p.addr>> \in Block(q)
        BY <1>1, <2>1, <2>3 DEF Block
      <3> QED
        BY <3>1
    <2> QED
      BY <1>1, <2>2, <2>3
  <1>6. ASSUME Block(q) \subseteq Block(p) PROVE Within(q, p)
    <2>1. <<q.fam, q.addr>> \in Block(q) /\ <<q.fam, lastAddr(q)>> \in Block(q)
      BY <1>1 DEF Block
    <2>2. <<q.fam, q.addr>> \in Block(p) /\ <<q.fam, lastAddr(q)>> \in Block(p)
      BY <1>6, <2>1
    <2> QED
      BY <1>1, <2>2 DEF Block, Within
  <1> QED
    BY <1>2, <1>3, <1>4, <1>5, <1>6

\* The two halves of a block.
LEMMA HalvesOfBlock ==
    ASSUME NEW p \in AllPrefixes, p.bits # 0
    PROVE  LET up == Parent(p, p.bits - 1)
               q  == Sibling(p)
           IN  /\ up \in AllPrefixes /\ q \in AllPrefixes /\ Within(q, up)
               /\ Block(p) \cap Block(q) = {}
               /\ Block(up) = Block(p) \cup Block(q)
  <1> DEFINE up == Parent(p, p.bits - 1)
  <1> DEFINE q == Sibling(p)
  <1>1. /\ q \in AllPrefixes /\ q.fam = p.fam
        /\ Apart(p, q) /\ Within(p, up) /\ Within(q, up)
        /\ \A a \in up.addr..lastAddr(up) :
              a \in p.addr..lastAddr(p) \/ a \in q.addr..lastAddr(q)
    BY SiblingFacts
  <1>2. up \in AllPrefixes
    <2>1. p.bits - 1 \in 0..p.bits
      BY PrefixFacts
    <2> QED
      BY <2>1, ParentFacts
  <1> HIDE DEF up, q
  <1>3. Block(p) \subseteq Block(up) /\ Block(q) \subseteq Block(up)
        /\ Block(p) \cap Block(q) = {}
    BY <1>1, <1>2, BlockFacts
  <1>4. Block(up) \subseteq Block(p) \cup Block(q)
    BY <1>1 DEF Block, Within
  <1> QED
    BY <1>1, <1>2, <1>3, <1>4 DEF up, q

----------------------------------------------------------------------------
(* Subtract leaves the rest *)

\* Prefixes in p that are apart and have the addresses x of p.
Covers(out, p, x) ==
    /\ out \subseteq AllPrefixes /\ Disjoint(out)
    /\ \A q \in out : Within(q, p)
    /\ Addresses(out) = x

\* The halves that are passed on the way from p to d are p without d: by
\* induction on the bits that d has more.
LEMMA HalvesFacts ==
    ASSUME NEW p \in AllPrefixes, NEW d \in AllPrefixes,
           Within(d, p), p.bits < d.bits
    PROVE  Covers(Halves(p, d), p, Block(p) \ Block(d))
  <1> DEFINE H(c) == {Sibling(Parent(d, b)) : b \in (p.bits + 1)..c}
  <1> DEFINE n == d.bits - p.bits
  <1> DEFINE S == {i \in 0..n :
                     Covers(H(p.bits + i), p,
                            Block(p) \ Block(Parent(d, p.bits + i)))}
  <1>1. p.bits \in Nat /\ d.bits \in Nat /\ n \in Nat /\ p.bits + n = d.bits
    BY PrefixFacts
  <1>2. 0 \in S
    <2>1. H(p.bits) = {}
      BY <1>1
    <2>2. Parent(d, p.bits) = p
      <3>1. p.bits \in 0..d.bits
        BY <1>1
      <3>2. ~Apart(d, p)
        BY HoldsFacts
      <3> QED
        BY <3>1, <3>2, ParentFacts
    <2>3. Covers({}, p, {})
      BY AddressesFacts DEF Covers, Disjoint
    <2>4. p.bits + 0 = p.bits
      BY <1>1
    <2> HIDE DEF H
    <2>5. Covers(H(p.bits + 0), p, Block(p) \ Block(Parent(d, p.bits + 0)))
      BY <2>1, <2>2, <2>3, <2>4
    <2> QED
      BY <1>1, <2>5
  <1>3. ASSUME NEW i \in 1..n, i - 1 \in S PROVE i \in S
    <2> DEFINE c == p.bits + i
    <2> DEFINE q == Parent(d, c)
    <2> DEFINE up == Parent(d, c - 1)
    <2> DEFINE sib == Sibling(q)
    <2>1. /\ c \in 1..d.bits /\ c \in 0..d.bits /\ c - 1 \in 0..d.bits
          /\ c - 1 = p.bits + (i - 1) /\ c # 0 /\ p.bits + 1 <= c
          /\ p.bits <= c - 1
      BY <1>1
    <2> HIDE DEF c
    <2>2. /\ q \in AllPrefixes /\ q.bits = c /\ Within(d, q)
          /\ up \in AllPrefixes /\ up.bits = c - 1 /\ Within(d, up)
      BY <2>1, ParentFacts
    <2>3. Parent(q, q.bits - 1) = up
      <3>1. Within(q, up)
        <4>1. ~Apart(up, q)
          BY <2>2, PrefixFacts DEF Within, Apart
        <4>2. up.bits <= q.bits
          BY <2>1, <2>2
        <4> HIDE DEF up, q
        <4> QED
          BY <2>2, <4>1, <4>2, HoldsFacts
      <3>2. ~Apart(q, up) /\ c - 1 \in 0..c
        BY <2>1, <2>2, <3>1, PrefixFacts DEF Within, Apart
      <3> HIDE DEF up, q
      <3> QED
        BY <2>2, <3>2, ParentFacts
    <2>4. /\ sib \in AllPrefixes /\ Within(sib, up)
          /\ Block(q) \cap Block(sib) = {}
          /\ Block(up) = Block(q) \cup Block(sib)
      <3> HIDE DEF up, q
      <3> QED
        BY <2>1, <2>2, <2>3, HalvesOfBlock
    <2>5. Within(up, p)
      <3>1. ~Apart(p, up)
        BY <2>2, PrefixFacts DEF Within, Apart
      <3>2. p.bits <= up.bits
        BY <2>1, <2>2
      <3> HIDE DEF up
      <3> QED
        BY <2>2, <3>1, <3>2, HoldsFacts
    <2>6. Covers(H(c - 1), p, Block(p) \ Block(up))
      BY <1>3, <2>1
    <2>7. H(c) = H(c - 1) \cup {sib}
      <3>1. (p.bits + 1)..c = ((p.bits + 1)..(c - 1)) \cup {c}
        BY <1>1, <2>1
      <3> QED
        BY <3>1
    <2> HIDE DEF H, q, up, sib
    <2>8. Within(sib, p)
      BY <2>2, <2>4, <2>5, PrefixFacts DEF Within
    <2>9. Block(up) \subseteq Block(p)
      BY <2>2, <2>5, BlockFacts
    <2>10. ASSUME NEW o \in H(c - 1) PROVE Apart(o, sib) /\ Apart(sib, o)
      <3>1. o \in AllPrefixes /\ Block(o) \cap Block(sib) = {}
        BY <2>4, <2>6, AddressesOf DEF Covers
      <3> QED
        BY <2>4, <3>1, BlockFacts
    <2>11. Addresses(H(c)) = Block(p) \ Block(q)
      <3>1. Addresses(H(c - 1) \cup {sib}) = Addresses(H(c - 1)) \cup Block(sib)
        BY AddressesOfOneMore
      <3>2. Addresses(H(c - 1)) = Block(p) \ Block(up)
        BY <2>6 DEF Covers
      <3> QED
        BY <2>4, <2>7, <2>9, <3>1, <3>2
    <2>12. Covers(H(c), p, Block(p) \ Block(q))
      BY <2>4, <2>6, <2>7, <2>8, <2>10, <2>11 DEF Covers, Disjoint
    <2> QED
      BY <1>1, <2>12 DEF c, q
  <1>4. n \in S
    <2> HIDE DEF S, n
    <2>1. \A i \in 0..n : i \in S
      BY <1>1, <1>2, <1>3, AlongList
    <2> QED
      BY <1>1, <2>1
  <1>5. Parent(d, d.bits) = d
    <2>1. d.bits \in 0..d.bits
      BY <1>1
    <2>2. ~Apart(d, d)
      BY PrefixFacts DEF Apart
    <2> QED
      BY <2>1, <2>2, ParentFacts
  <1>6. Halves(p, d) = H(d.bits)
    BY DEF Halves
  <1> QED
    BY <1>1, <1>4, <1>5, <1>6

\* Every part of p that is not in d is left, once.
LEMMA SubtractFacts ==
    ASSUME NEW p \in AllPrefixes, NEW d \in AllPrefixes
    PROVE  Covers(Subtract(p, d), p, Block(p) \ Block(d))
  <1>1. p.bits \in Nat /\ d.bits \in Nat
    BY PrefixFacts
  <1>2. CASE Holds(d, p) /\ d.bits <= p.bits
    <2>1. Within(p, d)
      BY <1>2, Nested
    <2>2. Block(p) \ Block(d) = {}
      BY <2>1, BlockFacts
    <2>3. Covers({}, p, {})
      BY AddressesFacts DEF Covers, Disjoint
    <2> QED
      BY <1>2, <2>2, <2>3 DEF Subtract
  <1>3. CASE Holds(p, d) /\ ~(Holds(d, p) /\ d.bits <= p.bits)
    <2>1. p.bits < d.bits
      <3>1. ASSUME d.bits <= p.bits PROVE FALSE
        <4>1. ~Apart(p, d)
          BY <1>3, HoldsFacts
        <4>2. Within(p, d)
          BY <3>1, <4>1, HoldsFacts
        <4> QED
          BY <1>3, <3>1, <4>2, HoldsFacts
      <3> QED
        BY <1>1, <3>1
    <2>2. Within(d, p)
      BY <1>1, <1>3, <2>1, Nested
    <2> QED
      BY <1>3, <2>1, <2>2, HalvesFacts DEF Subtract
  <1>4. CASE ~Holds(p, d) /\ ~(Holds(d, p) /\ d.bits <= p.bits)
    <2>1. Apart(p, d)
      BY <1>1, <1>4, Nested, HoldsFacts
    <2>2. Block(p) \ Block(d) = Block(p)
      BY <2>1, BlockFacts
    <2>3. Covers({p}, p, Block(p))
      BY AddressesFacts, HoldsFacts DEF Covers, Disjoint
    <2> QED
      BY <1>4, <2>2, <2>3 DEF Subtract
  <1> QED
    BY <1>2, <1>3, <1>4

----------------------------------------------------------------------------
(* Sets in the order of their ranks *)

\* s lists D by rank.
Lists(s, D, rank) ==
    /\ IsFiniteSet(D) /\ Len(s) = Cardinality(D) /\ Len(s) \in Nat
    /\ \A i \in 1..Len(s) : s[i] \in D
    /\ \A p \in D : \E i \in 1..Len(s) : s[i] = p
    /\ \A i, j \in 1..Len(s) : i < j => rank[s[i]] < rank[s[j]]

\* Sorting a finite set by ranks that differ lists it in their order.
LEMMA SortedFacts ==
    ASSUME NEW D, IsFiniteSet(D), NEW rank \in [D -> Int],
           \A p, q \in D : rank[p] = rank[q] => p = q
    PROVE  Lists(Sorted(rank), D, rank)
  <1> DEFINE n == Cardinality(D)
  <1> DEFINE Below(p) == {q \in D : rank[q] < rank[p]}
  <1> DEFINE pos == [p \in D |-> Cardinality(Below(p))]
  <1>1. n \in Nat
    BY FS_CardinalityType
  <1>2. ASSUME NEW p \in D
        PROVE  IsFiniteSet(Below(p)) /\ pos[p] \in 0..(n - 1)
    <2>1. IsFiniteSet(Below(p)) /\ Cardinality(Below(p)) \in Nat
      <3>1. Below(p) \in SUBSET D
        OBVIOUS
      <3> HIDE DEF Below
      <3> QED
        BY <3>1, FS_Subset, FS_CardinalityType
    <2>2. Below(p) \in SUBSET (D \ {p})
      OBVIOUS
    <2>3. IsFiniteSet(D \ {p}) /\ Cardinality(D \ {p}) = n - 1
      BY FS_RemoveElement
    <2>4. pos[p] = Cardinality(Below(p))
      OBVIOUS
    <2> HIDE DEF Below, n, pos
    <2>5. Cardinality(Below(p)) <= n - 1
      BY <2>2, <2>3, FS_Subset
    <2> QED
      BY <1>1, <2>1, <2>4, <2>5
  <1>3. ASSUME NEW p \in D, NEW q \in D, rank[p] < rank[q]
        PROVE  pos[p] < pos[q]
    <2>1. Below(p) \in SUBSET Below(q) /\ p \in Below(q) /\ p \notin Below(p)
      BY <1>3
    <2>2. pos[p] = Cardinality(Below(p)) /\ pos[q] = Cardinality(Below(q))
      OBVIOUS
    <2> HIDE DEF Below, pos
    <2>3. IsFiniteSet(Below(q)) /\ pos[p] \in Int /\ pos[q] \in Int
      BY <1>1, <1>2
    <2>4. Cardinality(Below(p)) <= Cardinality(Below(q))
          /\ Cardinality(Below(q)) # Cardinality(Below(p))
      BY <2>1, <2>3, FS_Subset
    <2> QED
      BY <2>2, <2>3, <2>4
  <1>4. \A p, q \in D : pos[p] = pos[q] => p = q
    <2> HIDE DEF pos, Below
    <2>1. \A p, q \in D : pos[p] \in Int /\ rank[p] \in Int
      BY <1>1, <1>2
    <2>2. ASSUME NEW p \in D, NEW q \in D, pos[p] = pos[q] PROVE p = q
      <3>1. ~(rank[p] < rank[q]) /\ ~(rank[q] < rank[p])
        BY <1>3, <2>1, <2>2
      <3>2. rank[p] = rank[q]
        BY <2>1, <3>1
      <3> QED
        BY <3>2
    <2> QED
      BY <2>2
  <1>5. \A i \in 0..(n - 1) : \E p \in D : pos[p] = i
    <2>1. pos \in Injection(D, 0..(n - 1))
      <3>1. pos \in [D -> 0..(n - 1)]
        BY <1>2
      <3> HIDE DEF pos
      <3> QED
        BY <1>4, <3>1 DEF Injection, IsInjective
    <2>2. IsFiniteSet(0..(n - 1)) /\ Cardinality(0..(n - 1)) = n
      <3>1. 0 \in Int /\ n - 1 \in Int
        BY <1>1
      <3> HIDE DEF n
      <3> QED
        BY <1>1, <3>1, FS_Interval
    <2> HIDE DEF pos
    <2>3. pos \in Surjection(D, 0..(n - 1))
      BY <2>1, <2>2, FS_Injection
    <2> QED
      BY <2>3 DEF Surjection
  <1> DEFINE s == Sorted(rank)
  <1>6. s = [i \in 1..n |-> CHOOSE p \in D : pos[p] = i - 1]
    <2>1. DOMAIN rank = D
      OBVIOUS
    <2>2. \A p \in D : pos[p] = Cardinality({q \in D : rank[q] < rank[p]})
      OBVIOUS
    <2> HIDE DEF pos
    <2> DEFINE ByPos(i) == CHOOSE p \in D : pos[p] = i - 1
    <2> DEFINE ByRank(i) ==
          CHOOSE p \in D : Cardinality({q \in D : rank[q] < rank[p]}) = i - 1
    <2>3. \A i \in 1..n : ByPos(i) = ByRank(i)
      BY <2>2
    <2> DEFINE Listed(E) ==
          [i \in 1..Cardinality(E) |->
             CHOOSE p \in E : Cardinality({q \in E : rank[q] < rank[p]}) = i - 1]
    <2>4. s = Listed(DOMAIN rank)
      BY DEF Sorted
    <2> HIDE DEF Listed
    <2>5. s = Listed(D)
      BY <2>1, <2>4
    <2>6. Listed(D) = [i \in 1..n |-> ByRank(i)]
      BY DEF Listed
    <2> HIDE DEF s, n, ByPos, ByRank, Listed
    <2>7. s = [i \in 1..n |-> ByPos(i)]
      BY <2>3, <2>5, <2>6
    <2> QED
      BY <2>7 DEF ByPos
  <1> HIDE DEF pos
  <1>7. ASSUME NEW i \in 1..n PROVE s[i] \in D /\ pos[s[i]] = i - 1
    <2>1. i - 1 \in 0..(n - 1)
      BY <1>1
    <2>2. \E p \in D : pos[p] = i - 1
      BY <1>5, <2>1
    <2> QED
      BY <1>6, <2>2
  <1>8. Len(s) = n
    <2>1. s \in [1..n -> D]
      BY <1>6, <1>7
    <2>2. s \in Seq(D)
      BY <1>1, <2>1
    <2> HIDE DEF s
    <2> QED
      BY <1>1, <2>1, <2>2
  <1> HIDE DEF s, n
  <1>9. ASSUME NEW p \in D PROVE \E i \in 1..n : s[i] = p
    <2>1. pos[p] \in 0..(n - 1)
      BY <1>2
    <2>2. pos[p] + 1 \in 1..n /\ (pos[p] + 1) - 1 = pos[p]
      BY <1>1, <2>1
    <2>3. s[pos[p] + 1] = p
      BY <1>4, <1>7, <2>2
    <2> QED
      BY <2>2, <2>3
  <1>10. ASSUME NEW i \in 1..n, NEW j \in 1..n, i < j
         PROVE  rank[s[i]] < rank[s[j]]
    <2>1. s[i] \in D /\ s[j] \in D /\ pos[s[i]] = i - 1 /\ pos[s[j]] = j - 1
      BY <1>7
    <2>2. rank[s[i]] \in Int /\ rank[s[j]] \in Int
      BY <2>1
    <2>3. ~(rank[s[j]] < rank[s[i]])
      BY <1>1, <1>3, <1>10, <2>1
    <2>4. rank[s[i]] # rank[s[j]]
      BY <1>1, <1>10, <2>1
    <2> QED
      BY <2>2, <2>3, <2>4
  <1> QED
    BY <1>1, <1>7, <1>8, <1>9, <1>10 DEF Lists, n, s

\* Ranks made of two parts compare the first one first.
Composed(a, m, r) == a * m + r

\* Such numbers are in the order of their first, then of their second part.
LEMMA Lexicographic ==
    ASSUME NEW a \in Nat, NEW b \in Nat, NEW m \in Nat \ {0},
           NEW r \in 0..(m - 1), NEW s \in 0..(m - 1)
    PROVE  /\ Composed(a, m, r) \in Nat /\ Composed(b, m, s) \in Nat
           /\ a < b => Composed(a, m, r) < Composed(b, m, s)
           /\ Composed(a, m, r) = Composed(b, m, s) => a = b /\ r = s
  <1>1. a * m \in Nat /\ b * m \in Nat /\ (a + 1) * m = a * m + m
        /\ (b + 1) * m = b * m + m
    OBVIOUS
  <1>2. ASSUME a < b PROVE a * m + r < b * m + s
    <2>1. a + 1 <= b /\ a + 1 \in Int /\ b \in Int /\ m \in Nat
      BY <1>2
    <2>2. (a + 1) * m <= b * m
      BY <2>1, Times
    <2> QED
      BY <1>1, <2>2
  <1>3. ASSUME b < a PROVE b * m + s < a * m + r
    <2>1. b + 1 <= a /\ b + 1 \in Int /\ a \in Int /\ m \in Nat
      BY <1>3
    <2>2. (b + 1) * m <= a * m
      BY <2>1, Times
    <2> QED
      BY <1>1, <2>2
  <1>4. a = b => (a * m + r = b * m + s => r = s)
    BY <1>1
  <1>5. a * m + r \in Nat /\ b * m + s \in Nat
    BY <1>1
  <1> HIDE <1>1
  <1> QED
    BY <1>2, <1>3, <1>4, <1>5 DEF Composed

\* There are finitely many prefixes, so every set of them can be sorted.
LEMMA FinitePrefixes == IsFiniteSet(AllPrefixes)
  <1> DEFINE A == Families \X ((0..(Space - 1)) \X (0..Width))
  <1> DEFINE f == [x \in A |-> [fam |-> x[1], addr |-> x[2][1], bits |-> x[2][2]]]
  <1> DEFINE T == {f[x] : x \in A}
  <1>1. IsFiniteSet(A)
    <2>1. IsFiniteSet(0..(Space - 1)) /\ IsFiniteSet(0..Width)
      <3>1. 0 \in Int /\ Space - 1 \in Int /\ Width \in Int
        BY SpaceFacts, PowFacts
      <3> QED
        BY <3>1, FS_Interval
    <2>2. IsFiniteSet((0..(Space - 1)) \X (0..Width))
      BY <2>1, FS_Product
    <2> QED
      BY <2>2, FilterAssumption, FS_Product
  <1>2. f \in Surjection(A, T)
    BY DEF Surjection
  <1>3. AllPrefixes \in SUBSET T
    <2>1. ASSUME NEW p \in AllPrefixes PROVE p \in T
      <3>1. /\ p = [fam |-> p.fam, addr |-> p.addr, bits |-> p.bits]
            /\ p.fam \in Families /\ p.addr \in 0..(Space - 1) /\ p.bits \in 0..Width
        BY DEF AllPrefixes
      <3>2. <<p.fam, <<p.addr, p.bits>>>> \in A
        BY <3>1
      <3>3. f[<<p.fam, <<p.addr, p.bits>>>>] = p
        BY <3>1, <3>2
      <3> HIDE DEF A, f
      <3> QED
        BY <3>2, <3>3
    <2> QED
      BY <2>1
  <1> HIDE DEF A, f, T
  <1> QED
    BY <1>1, <1>2, <1>3, FS_Surjection, FS_Subset

\* Prefixes by address: within a family the first address does not go down.
LEMMA ByAddress ==
    ASSUME NEW ps \in SUBSET AllPrefixes
    PROVE  \E rank :
              /\ Lists(SortedByAddress(ps), ps, rank)
              /\ \A p, q \in ps : rank[p] < rank[q] =>
                    p # q /\ (p.fam = q.fam => p.addr <= q.addr)
  <1> DEFINE R(p) == (p.fam * Space + p.addr) * (Width + 1) + p.bits
  <1> DEFINE rank == [p \in ps |-> R(p)]
  <1>1. Space \in Nat \ {0} /\ Width + 1 \in Nat \ {0}
    BY SpaceFacts, PowFacts
  <1>2. ASSUME NEW p \in ps
        PROVE  /\ p \in AllPrefixes /\ p.fam \in Nat
               /\ p.addr \in 0..(Space - 1)
               /\ p.bits \in 0..((Width + 1) - 1)
               /\ p.fam * Space + p.addr \in Nat
    <2>1. /\ p \in AllPrefixes /\ p.fam \in Nat /\ p.addr \in 0..(Space - 1)
          /\ p.bits \in 0..((Width + 1) - 1)
      BY PrefixFacts, PowFacts, SpaceFacts DEF AllPrefixes
    <2> QED
      BY <1>1, <2>1
  <1>3. ASSUME NEW p \in ps, NEW q \in ps
        PROVE  /\ R(p) \in Nat
               /\ R(p) = R(q) => p = q
               /\ R(p) < R(q) => p # q /\ (p.fam = q.fam => p.addr <= q.addr)
    <2> DEFINE x == p.fam * Space + p.addr
    <2> DEFINE y == q.fam * Space + q.addr
    <2>1. x \in Nat /\ y \in Nat
      BY <1>2
    <2>2. x = y => p.fam = q.fam /\ p.addr = q.addr
      <3> DEFINE m == Space
      <3>1. /\ m \in Nat \ {0} /\ p.fam \in Nat /\ q.fam \in Nat
            /\ p.addr \in 0..(m - 1) /\ q.addr \in 0..(m - 1)
        BY <1>1, <1>2
      <3>2. x = Composed(p.fam, m, p.addr) /\ y = Composed(q.fam, m, q.addr)
        BY DEF Composed
      <3> HIDE DEF x, y, m
      <3> QED
        BY <3>1, <3>2, Lexicographic
    <2>3. p.fam = q.fam => (y < x <=> q.addr < p.addr)
      BY <1>1, <1>2
    <2> DEFINE w == Width + 1
    <2>4. /\ w \in Nat \ {0} /\ p.bits \in 0..(w - 1) /\ q.bits \in 0..(w - 1)
          /\ p.addr \in Nat /\ q.addr \in Nat
      BY <1>1, <1>2
    <2>5. R(p) = Composed(x, w, p.bits) /\ R(q) = Composed(y, w, q.bits)
      BY DEF Composed
    <2> HIDE DEF x, y, w, R
    <2>6. /\ R(p) \in Nat /\ R(q) \in Nat
          /\ R(p) = R(q) => x = y /\ p.bits = q.bits
          /\ y < x => R(q) < R(p)
      <3>1. /\ Composed(x, w, p.bits) \in Nat /\ Composed(y, w, q.bits) \in Nat
            /\ Composed(x, w, p.bits) = Composed(y, w, q.bits) => x = y /\ p.bits = q.bits
        BY <2>1, <2>4, Lexicographic
      <3>2. y < x => Composed(y, w, q.bits) < Composed(x, w, p.bits)
        BY <2>1, <2>4, Lexicographic
      <3> QED
        BY <2>5, <3>1, <3>2
    <2>7. R(p) = R(q) => p = q
      BY <1>2, <2>2, <2>6, PrefixFacts
    <2>8. ASSUME R(p) < R(q) PROVE p # q /\ (p.fam = q.fam => p.addr <= q.addr)
      <3>1. p # q
        BY <2>6, <2>8
      <3>2. ~(y < x)
        BY <2>6, <2>8
      <3> QED
        BY <2>3, <2>4, <3>1, <3>2
    <2> QED
      BY <2>6, <2>7, <2>8
  <1>4. SortedByAddress(ps) = Sorted(rank)
    BY DEF SortedByAddress
  <1>5. \A p \in ps : rank[p] = R(p)
    OBVIOUS
  <1>6. rank \in [ps -> Int]
    BY <1>3
  <1>7. IsFiniteSet(ps)
    BY FinitePrefixes, FS_Subset
  <1> HIDE DEF R, rank
  <1>8. \A p, q \in ps : rank[p] = rank[q] => p = q
    BY <1>3, <1>5
  <1>9. Lists(SortedByAddress(ps), ps, rank)
    BY <1>4, <1>6, <1>7, <1>8, SortedFacts
  <1>10. \A p, q \in ps : rank[p] < rank[q] =>
            p # q /\ (p.fam = q.fam => p.addr <= q.addr)
    BY <1>3, <1>5
  <1> QED
    BY <1>9, <1>10

\* Prefixes by length: within a family the wider come first.
LEMMA ByLength ==
    ASSUME NEW ps \in SUBSET AllPrefixes
    PROVE  \E rank :
              /\ Lists(SortedByLength(ps), ps, rank)
              /\ \A p, q \in ps : rank[p] < rank[q] =>
                    p # q /\ (p.fam = q.fam => p.bits <= q.bits)
  <1> DEFINE R(p) == (p.fam * (Width + 1) + p.bits) * Space + p.addr
  <1> DEFINE rank == [p \in ps |-> R(p)]
  <1>1. Space \in Nat \ {0} /\ Width + 1 \in Nat \ {0}
    BY SpaceFacts, PowFacts
  <1>2. ASSUME NEW p \in ps
        PROVE  /\ p \in AllPrefixes /\ p.fam \in Nat
               /\ p.addr \in 0..(Space - 1)
               /\ p.bits \in 0..((Width + 1) - 1)
               /\ p.fam * (Width + 1) + p.bits \in Nat
    <2>1. /\ p \in AllPrefixes /\ p.fam \in Nat /\ p.addr \in 0..(Space - 1)
          /\ p.bits \in 0..((Width + 1) - 1)
      BY PrefixFacts, PowFacts, SpaceFacts DEF AllPrefixes
    <2> QED
      BY <1>1, <2>1
  <1>3. ASSUME NEW p \in ps, NEW q \in ps
        PROVE  /\ R(p) \in Nat
               /\ R(p) = R(q) => p = q
               /\ R(p) < R(q) => p # q /\ (p.fam = q.fam => p.bits <= q.bits)
    <2> DEFINE x == p.fam * (Width + 1) + p.bits
    <2> DEFINE y == q.fam * (Width + 1) + q.bits
    <2>1. x \in Nat /\ y \in Nat
      BY <1>2
    <2>2. x = y => p.fam = q.fam /\ p.bits = q.bits
      <3> DEFINE m == Width + 1
      <3>1. /\ m \in Nat \ {0} /\ p.fam \in Nat /\ q.fam \in Nat
            /\ p.bits \in 0..(m - 1) /\ q.bits \in 0..(m - 1)
        BY <1>1, <1>2
      <3>2. x = Composed(p.fam, m, p.bits) /\ y = Composed(q.fam, m, q.bits)
        BY DEF Composed
      <3> HIDE DEF x, y, m
      <3> QED
        BY <3>1, <3>2, Lexicographic
    <2>3. p.fam = q.fam => (y < x <=> q.bits < p.bits)
      BY <1>1, <1>2
    <2> DEFINE w == Space
    <2>4. /\ w \in Nat \ {0} /\ p.addr \in 0..(w - 1) /\ q.addr \in 0..(w - 1)
          /\ p.bits \in Nat /\ q.bits \in Nat
      BY <1>1, <1>2
    <2>5. R(p) = Composed(x, w, p.addr) /\ R(q) = Composed(y, w, q.addr)
      BY DEF Composed
    <2> HIDE DEF x, y, w, R
    <2>6. /\ R(p) \in Nat /\ R(q) \in Nat
          /\ R(p) = R(q) => x = y /\ p.addr = q.addr
          /\ y < x => R(q) < R(p)
      <3>1. /\ Composed(x, w, p.addr) \in Nat /\ Composed(y, w, q.addr) \in Nat
            /\ Composed(x, w, p.addr) = Composed(y, w, q.addr) => x = y /\ p.addr = q.addr
        BY <2>1, <2>4, Lexicographic
      <3>2. y < x => Composed(y, w, q.addr) < Composed(x, w, p.addr)
        BY <2>1, <2>4, Lexicographic
      <3> QED
        BY <2>5, <3>1, <3>2
    <2>7. R(p) = R(q) => p = q
      BY <1>2, <2>2, <2>6, PrefixFacts
    <2>8. ASSUME R(p) < R(q) PROVE p # q /\ (p.fam = q.fam => p.bits <= q.bits)
      <3>1. p # q
        BY <2>6, <2>8
      <3>2. ~(y < x)
        BY <2>6, <2>8
      <3> QED
        BY <2>3, <2>4, <3>1, <3>2
    <2> QED
      BY <2>6, <2>7, <2>8
  <1>4. SortedByLength(ps) = Sorted(rank)
    BY DEF SortedByLength
  <1>5. \A p \in ps : rank[p] = R(p)
    OBVIOUS
  <1>6. rank \in [ps -> Int]
    BY <1>3
  <1>7. IsFiniteSet(ps)
    BY FinitePrefixes, FS_Subset
  <1> HIDE DEF R, rank
  <1>8. \A p, q \in ps : rank[p] = rank[q] => p = q
    BY <1>3, <1>5
  <1>9. Lists(SortedByLength(ps), ps, rank)
    BY <1>4, <1>6, <1>7, <1>8, SortedFacts
  <1>10. \A p, q \in ps : rank[p] < rank[q] =>
            p # q /\ (p.fam = q.fam => p.bits <= q.bits)
    BY <1>3, <1>5
  <1> QED
    BY <1>9, <1>10

\* The first i of a list.
Upto(s, i) == {s[j] : j \in 1..i}

\* What was listed so far grows by one element at a time, and all of it comes
\* before the next.
LEMMA UptoFacts ==
    ASSUME NEW s, NEW D, NEW rank, Lists(s, D, rank)
    PROVE  /\ Upto(s, 0) = {} /\ Upto(s, Len(s)) = D
           /\ \A i \in 1..Len(s) : /\ Upto(s, i) = Upto(s, i - 1) \cup {s[i]}
                                   /\ Upto(s, i) \subseteq D
           /\ \A i \in 1..Len(s) : \A p \in Upto(s, i - 1) : rank[p] < rank[s[i]]
  <1>1. Len(s) \in Nat
    BY DEF Lists
  <1>2. Upto(s, 0) = {} /\ Upto(s, Len(s)) = D
    BY DEF Lists, Upto
  <1>3. ASSUME NEW i \in 1..Len(s)
        PROVE  Upto(s, i) = Upto(s, i - 1) \cup {s[i]} /\ Upto(s, i) \subseteq D
    <2>1. 1..i = (1..(i - 1)) \cup {i}
      BY <1>1
    <2>2. 1..i \subseteq 1..Len(s)
      BY <1>1
    <2> QED
      BY <2>1, <2>2 DEF Upto, Lists
  <1>4. ASSUME NEW i \in 1..Len(s), NEW p \in Upto(s, i - 1)
        PROVE  rank[p] < rank[s[i]]
    <2>1. PICK j \in 1..(i - 1) : p = s[j]
      BY DEF Upto
    <2>2. j \in 1..Len(s) /\ j < i
      BY <1>1
    <2> QED
      BY <2>1, <2>2 DEF Lists
  <1> QED
    BY <1>2, <1>3, <1>4

----------------------------------------------------------------------------
(* normalize keeps the addresses, and none twice *)

Same(out, ps) ==
    out \subseteq ps /\ Disjoint(out) /\ Addresses(out) = Addresses(ps)

\* Looking for kept parents, from the shortest prefix on, in either way, drops
\* exactly what another prefix covers.
LEMMA UncoveredFacts ==
    ASSUME NEW ps \in SUBSET AllPrefixes, NEW shorter \in {0, 1}
    PROVE  Same(Uncovered(ps, shorter), ps)
  <1> DEFINE sorted == SortedByLength(ps)
  <1> DEFINE last == Len(sorted)
  <1> DEFINE Kept(i, before) ==
        IF \E b \in 0..(sorted[i].bits - shorter) : Parent(sorted[i], b) \in before
        THEN before ELSE before \cup {sorted[i]}
  <1> DEFINE kept[i \in 0..last] ==
        IF i = 0 THEN {} ELSE Kept(i, kept[i - 1])
  <1>1. PICK rank : /\ Lists(sorted, ps, rank)
                    /\ \A p, q \in ps : rank[p] < rank[q] =>
                          p # q /\ (p.fam = q.fam => p.bits <= q.bits)
    BY ByLength
  <1>2. last \in Nat /\ \A i \in 1..last : sorted[i] \in ps
    BY <1>1 DEF Lists
  <1>3. Uncovered(ps, shorter) = kept[last]
    BY DEF Uncovered
  <1> HIDE DEF last, sorted
  <1> DEFINE V == SUBSET ps
  <1> DEFINE step == [i \in 1..last |-> [K \in V |-> Kept(i, K)]]
  <1>4. PICK d : IsLoop(0, last, V, {}, step, d)
    <2>1. step \in [(0 + 1)..last -> [V -> V]]
      BY <1>2
    <2>2. 0 \in Nat /\ {} \in V /\ 0 <= last
      BY <1>2
    <2> HIDE DEF V, step
    <2> QED
      BY <1>2, <2>1, <2>2, LoopExists
  <1>5. d = [i \in 0..last |-> IF i = 0 THEN {} ELSE Kept(i, d[i - 1])]
    <2>1. ASSUME NEW i \in 1..last PROVE d[i] = Kept(i, d[i - 1])
      <3>1. d[i - 1] \in V /\ i \in (0 + 1)..last
        BY <1>2, <1>4 DEF IsLoop
      <3>2. d[i] = step[i][d[i - 1]]
        BY <1>4, <3>1 DEF IsLoop
      <3> HIDE DEF V, Kept
      <3> QED
        BY <3>1, <3>2
    <2> HIDE DEF Kept
    <2> QED
      BY <1>2, <1>4, <2>1 DEF IsLoop
  <1>6. kept = [i \in 0..last |-> IF i = 0 THEN {} ELSE Kept(i, kept[i - 1])]
    <2> HIDE DEF Kept
    <2> QED
      BY <1>5
  <1> HIDE DEF kept
  <1>7. kept[0] = {} /\ \A i \in 1..last : kept[i] = Kept(i, kept[i - 1])
    <2>1. 0 \in 0..last /\ \A i \in 1..last : i \in 0..last /\ i # 0
      BY <1>2
    <2> HIDE DEF Kept
    <2>2. kept[0] = {}
      BY <1>6, <2>1
    <2>3. ASSUME NEW i \in 1..last PROVE kept[i] = Kept(i, kept[i - 1])
      BY <1>6, <2>1
    <2> QED
      BY <2>2, <2>3
  <1> DEFINE S == {i \in 0..last : Same(kept[i], Upto(sorted, i))}
  <1>8. 0 \in S
    <2>1. Same({}, {})
      BY DEF Same, Disjoint
    <2>2. Upto(sorted, 0) = {}
      BY <1>1, UptoFacts
    <2>3. Same(kept[0], Upto(sorted, 0))
      BY <1>7, <2>1, <2>2
    <2> QED
      BY <1>2, <2>3
  <1>9. ASSUME NEW i \in 1..last, i - 1 \in S PROVE i \in S
    <2> DEFINE p == sorted[i]
    <2> DEFINE before == kept[i - 1]
    <2> DEFINE U == Upto(sorted, i - 1)
    <2>1. /\ Upto(sorted, i) = U \cup {p} /\ U \cup {p} \subseteq ps
          /\ \A q \in U : rank[q] < rank[p]
      BY <1>1, UptoFacts DEF last
    <2>2. Same(before, U)
      BY <1>9
    <2>3. p \in AllPrefixes /\ before \subseteq AllPrefixes
      BY <2>1, <2>2 DEF Same
    <2>4. Addresses(U \cup {p}) = Addresses(U) \cup Block(p)
      BY AddressesOfOneMore
    <2> HIDE DEF p, before, U
    <2>5. CASE \E b \in 0..(p.bits - shorter) : Parent(p, b) \in before
      <3>1. PICK b \in 0..(p.bits - shorter) : Parent(p, b) \in before
        BY <2>5
      <3>2. b \in 0..p.bits
        BY <2>3, PrefixFacts
      <3>3. Block(p) \subseteq Block(Parent(p, b))
        BY <2>3, <3>2, ParentFacts, BlockFacts
      <3>4. Block(p) \subseteq Addresses(before)
        BY <3>1, <3>3, AddressesOf
      <3>5. Addresses(before) = Addresses(U \cup {p})
        BY <2>2, <2>4, <3>4 DEF Same
      <3>6. kept[i] = before
        BY <1>7, <2>5 DEF p, before
      <3>7. Same(before, U \cup {p})
        BY <2>2, <3>5 DEF Same
      <3>8. i \in 0..last
        BY <1>2
      <3>9. Same(kept[i], Upto(sorted, i))
        BY <2>1, <3>6, <3>7
      <3> QED
        BY <3>8, <3>9
    <2>6. CASE ~ \E b \in 0..(p.bits - shorter) : Parent(p, b) \in before
      <3>1. ASSUME NEW q \in before, ~Apart(p, q) PROVE FALSE
        <4>1. q \in U /\ q \in AllPrefixes /\ q \in ps /\ p \in ps
          BY <2>1, <2>2, <2>3 DEF Same
        <4>2. p # q /\ p.fam = q.fam /\ q.bits <= p.bits
          BY <1>1, <2>1, <3>1, <4>1 DEF Apart
        <4>3. p.bits \in Nat /\ q.bits \in Nat
          BY <2>3, <4>1, PrefixFacts
        <4>4. q = Parent(p, q.bits)
          <5>1. q.bits \in 0..p.bits
            BY <4>2, <4>3
          <5> QED
            BY <2>3, <3>1, <4>1, <5>1, ParentFacts
        <4>5. q.bits # p.bits
          BY <2>3, <3>1, <4>1, <4>2, SameLength
        <4>6. q.bits \in 0..(p.bits - shorter)
          BY <4>2, <4>3, <4>5
        <4> QED
          BY <2>6, <4>4, <4>6
      <3>2. \A q \in before : Apart(p, q) /\ Apart(q, p)
        BY <2>3, <3>1, HoldsFacts
      <3>3. kept[i] = before \cup {p}
        BY <1>7, <2>6 DEF p, before
      <3>4. Addresses(before \cup {p}) = Addresses(before) \cup Block(p)
        BY AddressesOfOneMore
      <3> QED
        BY <2>1, <2>2, <2>4, <3>2, <3>3, <3>4 DEF Same, Disjoint
    <2> QED
      BY <2>5, <2>6
  <1>10. last \in S
    <2> HIDE DEF S
    <2>1. \A i \in 0..last : i \in S
      BY <1>2, <1>8, <1>9, AlongList
    <2> QED
      BY <1>2, <2>1
  <1>11. Upto(sorted, last) = ps
    BY <1>1, UptoFacts DEF last
  <1> QED
    BY <1>3, <1>10, <1>11

\* A normalized list has the same addresses in prefixes that are apart,
\* whichever way it was normalized.
LEMMA NormalizedFacts ==
    ASSUME NEW ps \in SUBSET AllPrefixes
    PROVE  Same(Normalized(ps), ps)
  BY UncoveredFacts DEF Normalized, normalizeSimple, normalizeWithTrie

----------------------------------------------------------------------------
(* Apply keeps what is allowed and not denied *)

\* Prefixes that are apart, each in one of ps, and have the addresses x.
Parts(out, ps, x) ==
    /\ out \subseteq AllPrefixes /\ Disjoint(out)
    /\ \A q \in out : \E p \in ps : Within(q, p)
    /\ Addresses(out) = x

\* Transitivity and the lengths of prefixes in one another.
LEMMA WithinFacts ==
    /\ \A p, q, r \in AllPrefixes : Within(r, q) /\ Within(q, p) => Within(r, p)
    /\ \A p, q, r \in AllPrefixes :
          Within(q, p) /\ Apart(p, r) => Apart(q, r) /\ Apart(r, q)
  <1>1. \A p \in AllPrefixes :
           p.addr \in Nat /\ lastAddr(p) \in Nat /\ p.addr <= lastAddr(p)
    BY PrefixFacts
  <1> QED
    BY <1>1 DEF Within, Apart

\* A prefix and an allowed one have their intersection left, unless the allowed
\* one is wider and starts alike: of two that nest the narrower.
LEMMA NarrowedFacts ==
    ASSUME NEW p \in AllPrefixes, NEW q \in AllPrefixes,
           ~(Holds(p, q) /\ q.bits < p.bits)
    PROVE  /\ \A r \in Narrowed(p, q) : r \in AllPrefixes /\ Within(r, p)
           /\ Addresses(Narrowed(p, q)) = Block(p) \cap Block(q)
  <1>1. p.bits \in Nat /\ q.bits \in Nat /\ Within(p, p)
    BY PrefixFacts, HoldsFacts
  <1>2. CASE Holds(p, q)
    <2>1. Within(q, p)
      BY <1>1, <1>2, Nested
    <2>2. Block(q) \subseteq Block(p)
      BY <2>1, BlockFacts
    <2>3. Addresses({q}) = Block(q)
      BY AddressesFacts
    <2> QED
      BY <1>2, <2>1, <2>2, <2>3 DEF Narrowed
  <1>3. CASE Holds(q, p) /\ ~Holds(p, q)
    <2>1. Within(p, q)
      <3>1. ~Apart(p, q)
        BY <1>3, HoldsFacts
      <3>2. ASSUME p.bits < q.bits PROVE FALSE
        BY <1>1, <1>3, <3>1, <3>2, HoldsFacts
      <3> QED
        BY <1>1, <1>3, <3>2, Nested
    <2>2. Block(p) \subseteq Block(q)
      BY <2>1, BlockFacts
    <2>3. Addresses({p}) = Block(p)
      BY AddressesFacts
    <2> QED
      BY <1>1, <1>3, <2>1, <2>2, <2>3 DEF Narrowed
  <1>4. CASE ~Holds(q, p) /\ ~Holds(p, q)
    <2>1. Apart(p, q)
      BY <1>1, <1>4, Nested, HoldsFacts
    <2>2. Block(p) \cap Block(q) = {}
      BY <2>1, BlockFacts
    <2> QED
      BY <1>4, <2>2, AddressesFacts DEF Narrowed
  <1> QED
    BY <1>2, <1>3, <1>4

\* No allowed prefix starts where a narrower one of the input starts.
NotWidened(input, allow) ==
    \A p \in input, q \in allow : ~(Holds(p, q) /\ q.bits < p.bits)
Allowed(input, allow) ==
    IF allow = {} THEN Addresses(input)
    ELSE Addresses(input) \cap Addresses(allow)

\* Without such an allowed prefix, exactly what is allowed is left.
LEMMA IntersectedFacts ==
    ASSUME NEW input \in SUBSET AllPrefixes, NEW allow \in SUBSET AllPrefixes,
           NotWidened(input, allow)
    PROVE  Parts(Intersected(input, allow), input, Allowed(input, allow))
  <1> DEFINE ps == Normalized(input)
  <1> DEFINE qs == Normalized(allow)
  <1> DEFINE all == UNION {Narrowed(p, q) : p \in ps, q \in qs}
  <1>1. Intersected(input, allow) = IF qs = {} THEN ps ELSE Normalized(all)
    BY DEF Intersected
  <1>2. Same(ps, input) /\ Same(qs, allow)
    BY NormalizedFacts
  <1>3. qs = {} <=> allow = {}
    <2>1. \A q \in allow : Block(q) # {} /\ Block(q) \subseteq Addresses(allow)
      BY BlockFacts, AddressesOf
    <2> HIDE DEF qs
    <2> QED
      BY <1>2, <2>1, AddressesFacts DEF Same
  <1>4. \A p \in input : p \in AllPrefixes /\ Within(p, p)
    BY HoldsFacts
  <1>5. CASE qs = {}
    <2> HIDE DEF ps, qs
    <2> QED
      BY <1>1, <1>2, <1>3, <1>4, <1>5 DEF Parts, Same, Allowed
  <1>6. CASE qs # {}
    <2>1. ASSUME NEW p \in ps, NEW q \in qs
          PROVE  /\ p \in input /\ p \in AllPrefixes
                 /\ \A r \in Narrowed(p, q) : r \in AllPrefixes /\ Within(r, p)
                 /\ Addresses(Narrowed(p, q)) = Block(p) \cap Block(q)
      <3>1. p \in input /\ q \in allow
        BY <1>2 DEF Same
      <3>2. p \in AllPrefixes /\ q \in AllPrefixes
        BY <3>1
      <3>3. ~(Holds(p, q) /\ q.bits < p.bits)
        BY <3>1 DEF NotWidened
      <3> QED
        BY <3>1, <3>2, <3>3, NarrowedFacts
    <2> HIDE DEF ps, qs
    <2>2. \A r \in all : r \in AllPrefixes /\ \E p \in input : Within(r, p)
      BY <2>1
    <2>3. Addresses(all) = Addresses(ps) \cap Addresses(qs)
      <3>1. ASSUME NEW x \in Addresses(all)
            PROVE  x \in Addresses(ps) /\ x \in Addresses(qs)
        <4>1. PICK r \in all : x \in Block(r)
          BY AddressesOf
        <4>2. PICK p \in ps, q \in qs : r \in Narrowed(p, q)
          OBVIOUS
        <4>3. x \in Addresses(Narrowed(p, q))
          BY <4>1, <4>2, AddressesOf
        <4>4. x \in Block(p) /\ x \in Block(q)
          BY <2>1, <4>3
        <4> HIDE DEF all
        <4> QED
          BY <4>4, AddressesOf
      <3>2. ASSUME NEW x \in Addresses(ps), x \in Addresses(qs)
            PROVE  x \in Addresses(all)
        <4>1. PICK p \in ps : x \in Block(p)
          BY AddressesOf
        <4>2. PICK q \in qs : x \in Block(q)
          BY <3>2, AddressesOf
        <4>3. x \in Addresses(Narrowed(p, q))
          BY <2>1, <4>1, <4>2
        <4>4. PICK r \in Narrowed(p, q) : x \in Block(r)
          BY <4>3, AddressesOf
        <4>5. r \in all
          BY <4>4
        <4> HIDE DEF all
        <4> QED
          BY <4>4, <4>5, AddressesOf
      <3> QED
        BY <3>1, <3>2
    <2> HIDE DEF all
    <2>4. Same(Normalized(all), all)
      <3>1. all \in SUBSET AllPrefixes
        BY <2>2
      <3> QED
        BY <3>1, NormalizedFacts
    <2>5. Addresses(Normalized(all)) = Allowed(input, allow)
      BY <1>2, <1>3, <1>6, <2>3, <2>4 DEF Same, Allowed
    <2> QED
      BY <1>1, <1>6, <2>2, <2>4, <2>5 DEF Parts, Same
  <1> QED
    BY <1>5, <1>6

\* One prefix is taken from all of them.
LEMMA SubtractedFacts ==
    ASSUME NEW out, NEW ps \in SUBSET AllPrefixes, NEW x, Parts(out, ps, x),
           NEW d \in AllPrefixes
    PROVE  Parts(UNION {Subtract(p, d) : p \in out}, ps, x \ Block(d))
  <1> DEFINE new == UNION {Subtract(p, d) : p \in out}
  <1>1. ASSUME NEW p \in out
        PROVE  /\ p \in AllPrefixes
               /\ Covers(Subtract(p, d), p, Block(p) \ Block(d))
    BY SubtractFacts DEF Parts
  <1>2. \A r \in new : \E p \in out : r \in Subtract(p, d)
    OBVIOUS
  <1>3. \A p \in out : \A r \in Subtract(p, d) : r \in new
    OBVIOUS
  <1> HIDE DEF new
  <1>4. ASSUME NEW r \in new
        PROVE  r \in AllPrefixes /\ \E p \in ps : Within(r, p)
    <2>1. PICK q \in out : r \in Subtract(q, d)
      BY <1>2
    <2>2. r \in AllPrefixes /\ Within(r, q) /\ q \in AllPrefixes
      BY <1>1, <2>1 DEF Covers
    <2>3. PICK p \in ps : Within(q, p)
      BY DEF Parts
    <2> QED
      BY <2>2, <2>3, WithinFacts
  <1>5. ASSUME NEW r \in new, NEW s \in new, r # s PROVE Apart(r, s)
    <2>1. PICK p \in out : r \in Subtract(p, d)
      BY <1>2
    <2>2. PICK q \in out : s \in Subtract(q, d)
      BY <1>2
    <2>3. /\ r \in AllPrefixes /\ Within(r, p) /\ p \in AllPrefixes
          /\ s \in AllPrefixes /\ Within(s, q) /\ q \in AllPrefixes
      BY <1>1, <2>1, <2>2 DEF Covers
    <2>4. CASE p = q
      BY <1>1, <1>5, <2>1, <2>2, <2>4 DEF Covers, Disjoint
    <2>5. CASE p # q
      <3>1. Apart(p, q)
        BY <2>5 DEF Parts, Disjoint
      <3>2. Apart(q, r)
        BY <2>3, <3>1, WithinFacts
      <3> QED
        BY <2>3, <3>2, WithinFacts
    <2> QED
      BY <2>4, <2>5
  <1>6. Addresses(new) = x \ Block(d)
    <2>1. ASSUME NEW y \in Addresses(new) PROVE y \in x /\ y \notin Block(d)
      <3>1. PICK r \in new : y \in Block(r)
        BY AddressesOf
      <3>2. PICK p \in out : r \in Subtract(p, d)
        BY <1>2
      <3>3. y \in Addresses(Subtract(p, d))
        BY <3>1, <3>2, AddressesOf
      <3>4. y \in Block(p) /\ y \notin Block(d)
        BY <1>1, <3>3 DEF Covers
      <3>5. y \in Addresses(out)
        BY <3>4, AddressesOf
      <3> QED
        BY <3>4, <3>5 DEF Parts
    <2>2. ASSUME NEW y \in x, y \notin Block(d) PROVE y \in Addresses(new)
      <3>1. y \in Addresses(out)
        BY DEF Parts
      <3>2. PICK p \in out : y \in Block(p)
        BY <3>1, AddressesOf
      <3>3. y \in Addresses(Subtract(p, d))
        BY <1>1, <2>2, <3>2 DEF Covers
      <3>4. PICK r \in Subtract(p, d) : y \in Block(r)
        BY <3>3, AddressesOf
      <3> QED
        BY <1>3, <3>4, AddressesOf
    <2> QED
      BY <2>1, <2>2
  <1>7. Parts(new, ps, x \ Block(d))
    BY <1>4, <1>5, <1>6 DEF Parts, Disjoint
  <1> QED
    BY <1>7 DEF new

\* Filters that are not refused leave what is allowed and not denied: what is
\* denied goes in one pass for each prefix of the list.
LEMMA ApplyFacts ==
    ASSUME NEW input \in SUBSET AllPrefixes, NEW lists \in FilterLists,
           NotWidened(input, lists.allow), Apply(input, lists).ok
    PROVE  Parts(Apply(input, lists).out, input,
                 Allowed(input, lists.allow) \ Addresses(lists.deny))
  <1> DEFINE denied == Normalized(lists.deny)
  <1> DEFINE deny == SortedByLength(denied)
  <1> DEFINE last == Len(deny)
  <1> DEFINE first == Limited(Intersected(input, lists.allow))
  <1> DEFINE after[i \in 0..last] ==
        IF i = 0 THEN first ELSE Denied(after[i - 1], deny[i])
  <1>1. Apply(input, lists) = after[last]
    BY DEF Apply
  <1>2. lists.allow \in SUBSET AllPrefixes /\ lists.deny \in SUBSET AllPrefixes
    BY DEF FilterLists
  <1>3. Same(denied, lists.deny)
    BY <1>2, NormalizedFacts
  <1>4. PICK rank : Lists(deny, denied, rank)
    <2>1. denied \in SUBSET AllPrefixes
      BY <1>2, <1>3 DEF Same
    <2> HIDE DEF denied
    <2> QED
      BY <2>1, ByLength
  <1>5. last \in Nat /\ \A i \in 1..last : deny[i] \in AllPrefixes
    BY <1>2, <1>3, <1>4 DEF Lists, Same
  <1> DEFINE x == Allowed(input, lists.allow)
  <1>6. Parts(first.out, input, x)
    <2>1. first.out = Intersected(input, lists.allow)
      BY DEF Limited
    <2> QED
      BY <1>2, <2>1, IntersectedFacts
  <1>7. first \in [ok : BOOLEAN, out : SUBSET AllPrefixes]
    <2>1. first = [ok |-> Cardinality(Intersected(input, lists.allow)) <= MaxPrefixes,
                   out |-> Intersected(input, lists.allow)]
      BY DEF Limited
    <2>2. Intersected(input, lists.allow) \in SUBSET AllPrefixes
      BY <1>2, IntersectedFacts DEF Parts
    <2>3. (Cardinality(Intersected(input, lists.allow)) <= MaxPrefixes) \in BOOLEAN
      OBVIOUS
    <2> HIDE DEF first
    <2> QED
      BY <2>1, <2>2, <2>3
  <1> HIDE DEF last, deny, first, x
  <1> DEFINE V == [ok : BOOLEAN, out : SUBSET AllPrefixes]
  <1>8. ASSUME NEW d \in V, NEW q \in AllPrefixes PROVE Denied(d, q) \in V
    <2>1. UNION {Subtract(p, q) : p \in d.out} \in SUBSET AllPrefixes
      <3>1. \A p \in d.out : Subtract(p, q) \subseteq AllPrefixes
        BY SubtractFacts DEF Covers
      <3> QED
        BY <3>1
    <2> QED
      BY <2>1 DEF Denied, Limited
  <1> DEFINE step == [i \in 1..last |-> [d \in V |-> Denied(d, deny[i])]]
  <1>9. PICK d : IsLoop(0, last, V, first, step, d)
    <2>1. step \in [(0 + 1)..last -> [V -> V]]
      <3> HIDE DEF V
      <3> QED
        BY <1>5, <1>8
    <2>2. 0 \in Nat /\ first \in V /\ 0 <= last
      BY <1>5, <1>7
    <2> HIDE DEF V, step
    <2> QED
      BY <1>5, <2>1, <2>2, LoopExists
  <1>10. d = [i \in 0..last |-> IF i = 0 THEN first ELSE Denied(d[i - 1], deny[i])]
    <2> HIDE DEF V
    <2>1. ASSUME NEW i \in 1..last PROVE d[i] = Denied(d[i - 1], deny[i])
      <3>1. d[i - 1] \in V /\ i \in (0 + 1)..last
        BY <1>5, <1>9 DEF IsLoop
      <3>2. d[i] = step[i][d[i - 1]]
        BY <1>9, <3>1 DEF IsLoop
      <3> QED
        BY <3>1, <3>2
    <2> QED
      BY <1>5, <1>9, <2>1 DEF IsLoop
  <1>11. after = [i \in 0..last |-> IF i = 0 THEN first
                                    ELSE Denied(after[i - 1], deny[i])]
    BY <1>10
  <1> HIDE DEF after
  <1>12. after[0] = first
         /\ \A i \in 1..last : after[i] = Denied(after[i - 1], deny[i])
    <2>1. 0 \in 0..last /\ \A i \in 1..last : i \in 0..last /\ i # 0
      BY <1>5
    <2>2. after[0] = first
      BY <1>11, <2>1
    <2>3. ASSUME NEW i \in 1..last PROVE after[i] = Denied(after[i - 1], deny[i])
      BY <1>11, <2>1
    <2> QED
      BY <2>2, <2>3
  <1> DEFINE Done(i) ==
        after[i].ok =>
          Parts(after[i].out, input, x \ Addresses(Upto(deny, i)))
  <1> DEFINE S == {i \in 0..last : Done(i)}
  <1>13. 0 \in S
    <2>1. Upto(deny, 0) = {}
      BY <1>4, UptoFacts
    <2>2. x \ Addresses({}) = x
      BY AddressesFacts
    <2>3. Done(0)
      BY <1>6, <1>12, <2>1, <2>2
    <2> QED
      BY <1>5, <2>3
  <1>14. ASSUME NEW i \in 1..last, i - 1 \in S PROVE i \in S
    <2> DEFINE was == after[i - 1]
    <2> DEFINE q == deny[i]
    <2> DEFINE U == Upto(deny, i - 1)
    <2>1. after[i] = Denied(was, q) /\ q \in AllPrefixes
      BY <1>5, <1>12
    <2>2. was.ok => Parts(was.out, input, x \ Addresses(U))
      BY <1>14
    <2>3. Upto(deny, i) = U \cup {q}
      BY <1>4, UptoFacts DEF last
    <2> HIDE DEF was, q, U
    <2>4. Addresses(U \cup {q}) = Addresses(U) \cup Block(q)
      BY AddressesOfOneMore
    <2>5. (x \ Addresses(U)) \ Block(q) = x \ Addresses(Upto(deny, i))
      BY <2>3, <2>4
    <2>6. ASSUME after[i].ok
          PROVE  Parts(after[i].out, input, x \ Addresses(Upto(deny, i)))
      <3>1. was.ok
        BY <2>1, <2>6 DEF Denied
      <3>2. after[i].out = UNION {Subtract(p, q) : p \in was.out}
        BY <2>1, <3>1 DEF Denied, Limited
      <3>3. Parts(UNION {Subtract(p, q) : p \in was.out}, input,
                  (x \ Addresses(U)) \ Block(q))
        BY <2>1, <2>2, <3>1, SubtractedFacts
      <3> QED
        BY <2>5, <3>2, <3>3
    <2>7. i \in 0..last
      BY <1>5
    <2> QED
      BY <2>6, <2>7
  <1>15. last \in S
    <2> HIDE DEF S
    <2>1. \A i \in 0..last : i \in S
      BY <1>5, <1>13, <1>14, AlongList
    <2> QED
      BY <1>5, <2>1
  <1>16. Upto(deny, last) = denied
    BY <1>4, UptoFacts DEF last
  <1>17. Parts(after[last].out, input, x \ Addresses(denied))
    BY <1>1, <1>15, <1>16
  <1> QED
    BY <1>1, <1>3, <1>17 DEF Same, x

----------------------------------------------------------------------------
(* ExcludeSet.Subtract takes away what is excluded, though it stops at the *)
(* first exclude that ends before the prefix                               *)

\* Excludes that are apart take their addresses out of a prefix: those that
\* start before the one the search stops at end before the prefix, too.
LEMMA PunchedFacts ==
    ASSUME NEW p \in AllPrefixes, NEW excludes \in SUBSET AllPrefixes,
           Disjoint(excludes)
    PROVE  Parts(Punched(p, excludes), {p}, Block(p) \ Addresses(excludes))
  <1> DEFINE near == {e \in excludes : e.fam = p.fam /\ e.addr <= lastAddr(p)}
  <1> DEFINE run == SortedByAddress(near)
  <1> DEFINE last == Len(run)
  <1> DEFINE first == [done |-> FALSE, out |-> {p}]
  <1> DEFINE after[i \in 0..last] ==
        IF i = 0 THEN first ELSE Punch(p, after[i - 1], run[last + 1 - i])
  <1>1. Punched(p, excludes) = after[last].out
    BY DEF Punched
  <1>2. near \in SUBSET AllPrefixes /\ Disjoint(near)
    BY DEF Disjoint
  <1>3. \A e \in near : e \in AllPrefixes /\ e.fam = p.fam
    OBVIOUS
  <1>4. Block(p) \ Addresses(near) = Block(p) \ Addresses(excludes)
    <2>1. ASSUME NEW e \in excludes, e \notin near
          PROVE  Block(p) \cap Block(e) = {}
      <3>1. Apart(p, e)
        <4>1. e.addr \in Nat /\ lastAddr(p) \in Nat
          BY PrefixFacts
        <4> QED
          BY <2>1, <4>1 DEF Apart
      <3> QED
        BY <3>1, BlockFacts
    <2>2. near \subseteq excludes
      OBVIOUS
    <2> HIDE DEF near
    <2>3. ASSUME NEW y \in Block(p)
          PROVE  y \in Addresses(near) <=> y \in Addresses(excludes)
      BY <2>1, <2>2, AddressesOf
    <2> QED
      BY <2>3
  <1> HIDE DEF near
  <1>5. PICK rank : /\ Lists(run, near, rank)
                    /\ \A q, r \in near : rank[q] < rank[r] =>
                          q # r /\ (q.fam = r.fam => q.addr <= r.addr)
    BY <1>2, ByAddress
  <1>6. last \in Nat /\ \A i \in 1..last : run[i] \in near
    BY <1>5 DEF Lists
  \* Going back, an exclude ends before the next one starts.
  <1>7. ASSUME NEW i \in 1..last, NEW j \in 1..last, i < j
        PROVE  lastAddr(run[i]) < run[j].addr
    <2> DEFINE q == run[i]
    <2> DEFINE r == run[j]
    <2>1. q \in near /\ r \in near /\ rank[q] < rank[r]
      BY <1>5, <1>7 DEF Lists
    <2> HIDE DEF q, r
    <2>2. q # r /\ q.addr <= r.addr /\ q.fam = r.fam
      BY <1>3, <1>5, <2>1
    <2>3. Apart(q, r)
      BY <1>2, <2>1, <2>2 DEF Disjoint
    <2>4. q.addr \in Nat /\ r.addr \in Nat /\ lastAddr(r) \in Nat
          /\ lastAddr(q) \in Nat /\ r.addr <= lastAddr(r)
      BY <1>3, <2>1, PrefixFacts
    <2>5. lastAddr(q) < r.addr
      BY <2>2, <2>3, <2>4 DEF Apart
    <2> QED
      BY <2>5 DEF q, r
  <1> HIDE DEF last, run, first
  <1> DEFINE V == [done : BOOLEAN, out : SUBSET AllPrefixes]
  <1>8. ASSUME NEW d \in V, NEW e \in AllPrefixes PROVE Punch(p, d, e) \in V
    <2>1. UNION {Subtract(f, e) : f \in d.out} \in SUBSET AllPrefixes
      <3>1. \A f \in d.out : Subtract(f, e) \subseteq AllPrefixes
        BY SubtractFacts DEF Covers
      <3> QED
        BY <3>1
    <2> QED
      BY <2>1 DEF Punch
  <1>9. \A i \in 1..last : /\ last + 1 - i \in 1..last
                           /\ run[last + 1 - i] \in near
                           /\ run[last + 1 - i] \in AllPrefixes
    <2>1. \A i \in 1..last : last + 1 - i \in 1..last
      BY <1>6
    <2> QED
      BY <1>3, <1>6, <2>1
  <1> DEFINE step == [i \in 1..last |-> [d \in V |-> Punch(p, d, run[last + 1 - i])]]
  <1>10. PICK d : IsLoop(0, last, V, first, step, d)
    <2>1. step \in [(0 + 1)..last -> [V -> V]]
      <3> HIDE DEF V
      <3> QED
        BY <1>6, <1>8, <1>9
    <2>2. 0 \in Nat /\ first \in V /\ 0 <= last
      BY <1>6 DEF first
    <2> HIDE DEF V, step
    <2> QED
      BY <1>6, <2>1, <2>2, LoopExists
  <1>11. d = [i \in 0..last |-> IF i = 0 THEN first
                                ELSE Punch(p, d[i - 1], run[last + 1 - i])]
    <2> HIDE DEF V
    <2>1. ASSUME NEW i \in 1..last
          PROVE  d[i] = Punch(p, d[i - 1], run[last + 1 - i])
      <3>1. d[i - 1] \in V /\ i \in (0 + 1)..last
        BY <1>6, <1>10 DEF IsLoop
      <3>2. d[i] = step[i][d[i - 1]]
        BY <1>10, <3>1 DEF IsLoop
      <3> QED
        BY <3>1, <3>2
    <2> QED
      BY <1>6, <1>10, <2>1 DEF IsLoop
  <1>12. after = [i \in 0..last |-> IF i = 0 THEN first
                                    ELSE Punch(p, after[i - 1], run[last + 1 - i])]
    BY <1>11
  <1> HIDE DEF after
  <1>13. after[0] = first
         /\ \A i \in 1..last : after[i] = Punch(p, after[i - 1], run[last + 1 - i])
    <2>1. 0 \in 0..last /\ \A i \in 1..last : i \in 0..last /\ i # 0
      BY <1>6
    <2>2. after[0] = first
      BY <1>12, <2>1
    <2>3. ASSUME NEW i \in 1..last
          PROVE  after[i] = Punch(p, after[i - 1], run[last + 1 - i])
      BY <1>12, <2>1
    <2> QED
      BY <2>2, <2>3
  <1> DEFINE Back(i) == {run[j] : j \in (last + 1 - i)..last}
  <1> DEFINE Done(i) ==
        /\ Parts(after[i].out, {p}, Block(p) \ Addresses(Back(i)))
        /\ after[i].done => i # 0 /\ lastAddr(run[last + 1 - i]) < p.addr
  <1> DEFINE S == {i \in 0..last : Done(i)}
  <1>14. 0 \in S
    <2>1. Back(0) = {}
      BY <1>6
    <2>2. Parts({p}, {p}, Block(p))
      BY AddressesFacts, HoldsFacts DEF Parts, Disjoint
    <2> HIDE DEF Back
    <2>3. Block(p) \ Addresses(Back(0)) = Block(p)
      BY <2>1, AddressesFacts
    <2>4. after[0].done = FALSE /\ after[0].out = {p}
      BY <1>13 DEF first
    <2>5. Done(0)
      BY <2>2, <2>3, <2>4
    <2> QED
      BY <1>6, <2>5
  <1>15. ASSUME NEW i \in 1..last, i - 1 \in S PROVE i \in S
    <2> DEFINE was == after[i - 1]
    <2> DEFINE e == run[last + 1 - i]
    <2> DEFINE B == Back(i - 1)
    <2>1. after[i] = Punch(p, was, e) /\ e \in AllPrefixes
          /\ e \in near /\ last + 1 - i \in 1..last
      BY <1>9, <1>13
    <2>2. Parts(was.out, {p}, Block(p) \ Addresses(B))
      BY <1>15
    <2>3. was.done => lastAddr(e) < p.addr
      <3> DEFINE f == run[last + 1 - (i - 1)]
      <3>1. ASSUME was.done PROVE i - 1 # 0 /\ lastAddr(f) < p.addr
        BY <1>15, <3>1
      <3>2. ASSUME was.done PROVE lastAddr(e) < f.addr /\ f \in AllPrefixes
        <4>1. /\ last + 1 - i \in 1..last /\ last + 1 - (i - 1) \in 1..last
              /\ last + 1 - i < last + 1 - (i - 1)
          BY <1>6, <3>1, <3>2
        <4> QED
          BY <1>3, <1>6, <1>7, <4>1
      <3> HIDE DEF f, e, was
      <3>3. ASSUME was.done PROVE lastAddr(e) < p.addr
        <4>1. f.addr \in Nat /\ lastAddr(f) \in Nat /\ f.addr <= lastAddr(f)
              /\ lastAddr(e) \in Nat /\ p.addr \in Nat
          BY <2>1, <3>2, <3>3, PrefixFacts
        <4> QED
          BY <3>1, <3>2, <3>3, <4>1
      <3> QED
        BY <3>3
    <2>4. Back(i) = B \cup {e}
      <3>1. (last + 1 - i)..last = ((last + 1 - (i - 1))..last) \cup {last + 1 - i}
        BY <1>6
      <3> QED
        BY <3>1
    <2>5. i \in 0..last /\ i # 0
      BY <1>6
    <2>6. after[i].done => lastAddr(e) < p.addr
      <3> HIDE DEF was, e
      <3> QED
        BY <2>1, <2>3 DEF Punch
    <2> HIDE DEF was, B, Back
    <2>7. Parts(after[i].out, {p}, Block(p) \ Addresses(Back(i)))
      <3>1. Addresses(B \cup {e}) = Addresses(B) \cup Block(e)
        BY AddressesOfOneMore
      <3> HIDE DEF e
      <3>2. CASE lastAddr(e) < p.addr
        <4>1. after[i].out = was.out
          BY <2>1, <3>2 DEF Punch
        <4>2. Block(p) \cap Block(e) = {}
          <5>1. Apart(p, e)
            BY <3>2 DEF Apart
          <5> QED
            BY <2>1, <5>1, BlockFacts
        <4>3. Block(p) \ Addresses(Back(i)) = Block(p) \ Addresses(B)
          BY <2>4, <3>1, <4>2
        <4> QED
          BY <2>2, <4>1, <4>3
      <3>3. CASE ~(lastAddr(e) < p.addr)
        <4>1. after[i].out = UNION {Subtract(f, e) : f \in was.out}
          BY <2>1, <2>3, <3>3 DEF Punch
        <4>2. {p} \in SUBSET AllPrefixes
          OBVIOUS
        <4>3. Parts(UNION {Subtract(f, e) : f \in was.out}, {p},
                    (Block(p) \ Addresses(B)) \ Block(e))
          BY <2>1, <2>2, <4>2, SubtractedFacts
        <4>4. (Block(p) \ Addresses(B)) \ Block(e) = Block(p) \ Addresses(Back(i))
          BY <2>4, <3>1
        <4> QED
          BY <4>1, <4>3, <4>4
      <3> QED
        BY <3>2, <3>3
    <2>8. Done(i)
      BY <2>5, <2>6, <2>7 DEF e
    <2> QED
      BY <2>5, <2>8
  <1>16. last \in S
    <2> HIDE DEF S
    <2>1. \A i \in 0..last : i \in S
      BY <1>6, <1>14, <1>15, AlongList
    <2> QED
      BY <1>6, <2>1
  <1>17. Back(last) = near
    <2>1. last + 1 - last = 1
      BY <1>6
    <2>2. Upto(run, last) = near
      BY <1>5, UptoFacts DEF last
    <2> QED
      BY <2>1, <2>2 DEF Upto
  <1>18. Parts(after[last].out, {p}, Block(p) \ Addresses(near))
    <2> HIDE DEF Back
    <2> QED
      BY <1>16, <1>17
  <1> QED
    BY <1>1, <1>4, <1>18

----------------------------------------------------------------------------
(* What is announced has the addresses that are offered, allowed and not  *)
(* denied                                                                  *)

\* What a service offers when the excludes are taken away; default routes are
\* left as they are, and are not offered.
LEMMA OfferedFacts ==
    ASSUME NEW t \in Tables, NEW svc \in Services
    PROVE  /\ Entries(t, svc) \subseteq AllPrefixes
           /\ Addresses(Offered(t, svc)) =
                 Addresses(Queried(t.content[svc])) \ Addresses(t.excluded)
  <1> DEFINE excludes == Normalized(t.excluded)
  <1> DEFINE Part(p) == IF p.bits = 0 THEN {p} ELSE Punched(p, excludes)
  <1>1. t.excluded \in SUBSET AllPrefixes /\ t.content[svc] \in SUBSET AllPrefixes
    BY DEF Tables
  <1>2. Same(excludes, t.excluded)
    BY <1>1, NormalizedFacts
  <1>3. Entries(t, svc) = UNION {Part(p) : p \in t.content[svc]}
    BY DEF Entries
  <1>4. ASSUME NEW p \in t.content[svc]
        PROVE  /\ p \in AllPrefixes
               /\ Part(p) \subseteq AllPrefixes
               /\ p.bits = 0 => Part(p) = {p}
               /\ p.bits # 0 =>
                     /\ \A q \in Part(p) : q.bits # 0
                     /\ Addresses(Part(p)) = Block(p) \ Addresses(t.excluded)
    <2>1. p \in AllPrefixes
      BY <1>1
    <2>2. CASE p.bits = 0
      BY <2>1, <2>2
    <2>3. CASE p.bits # 0
      <3>1. excludes \in SUBSET AllPrefixes /\ Disjoint(excludes)
            /\ Addresses(excludes) = Addresses(t.excluded)
        BY <1>1, <1>2 DEF Same
      <3>2. Part(p) = Punched(p, excludes)
        BY <2>3
      <3> HIDE DEF excludes, Part
      <3>3. Parts(Part(p), {p}, Block(p) \ Addresses(t.excluded))
        BY <2>1, <3>1, <3>2, PunchedFacts
      <3>4. ASSUME NEW q \in Part(p) PROVE q.bits # 0
        <4>1. q \in AllPrefixes /\ Within(q, p)
          BY <3>3 DEF Parts
        <4>2. p.bits <= q.bits /\ p.bits \in Nat /\ q.bits \in Nat
          BY <2>1, <4>1, HoldsFacts, PrefixFacts
        <4> QED
          BY <2>3, <4>2
      <3> QED
        BY <2>1, <2>3, <3>3, <3>4 DEF Parts
    <2> QED
      BY <2>2, <2>3
  <1> HIDE DEF Part
  <1>5. Entries(t, svc) \subseteq AllPrefixes
    BY <1>3, <1>4
  <1>6. \A q \in Offered(t, svc) :
           \E p \in t.content[svc] : p.bits # 0 /\ q \in Part(p)
    BY <1>3, <1>4 DEF Offered, Queried
  <1>7. \A p \in t.content[svc] : p.bits # 0 => Part(p) \subseteq Offered(t, svc)
    BY <1>3, <1>4 DEF Offered, Queried
  <1>8. ASSUME NEW x \in Addresses(Offered(t, svc))
        PROVE  x \in Addresses(Queried(t.content[svc])) \ Addresses(t.excluded)
    <2>1. PICK q \in Offered(t, svc) : x \in Block(q)
      BY AddressesOf
    <2>2. PICK p \in t.content[svc] : p.bits # 0 /\ q \in Part(p)
      BY <1>6
    <2>3. x \in Addresses(Part(p))
      BY <2>1, <2>2, AddressesOf
    <2>4. x \in Block(p) \ Addresses(t.excluded)
      BY <1>4, <2>2, <2>3
    <2>5. p \in Queried(t.content[svc])
      BY <2>2 DEF Queried
    <2> QED
      BY <2>4, <2>5, AddressesOf
  <1>9. ASSUME NEW x \in Addresses(Queried(t.content[svc])) \ Addresses(t.excluded)
        PROVE  x \in Addresses(Offered(t, svc))
    <2>1. PICK p \in Queried(t.content[svc]) : x \in Block(p)
      BY AddressesOf
    <2>2. p \in t.content[svc] /\ p.bits # 0
      BY DEF Queried
    <2>3. x \in Addresses(Part(p))
      BY <1>4, <2>1, <2>2
    <2>4. PICK q \in Part(p) : x \in Block(q)
      BY <2>3, AddressesOf
    <2>5. q \in Offered(t, svc)
      BY <1>7, <2>2, <2>4
    <2> QED
      BY <2>4, <2>5, AddressesOf
  <1> QED
    BY <1>5, <1>8, <1>9

\* Whatever the mode of his filters, those of a user are lists.
LEMMA FiltersAreLists ==
    ASSUME NEW t \in Tables, NEW u \in Users
    PROVE  FiltersOf(t, u) \in FilterLists
  <1>1. /\ t.global \in FilterLists /\ t.own[u] \in FilterLists
        /\ t.mode[u] \in {"global", "extend", "override"}
    BY DEF Tables
  <1>2. \A a, b \in FilterLists :
           [allow |-> a.allow \cup b.allow, deny |-> a.deny \cup b.deny]
              \in FilterLists
    BY DEF FilterLists
  <1> QED
    BY <1>1, <1>2 DEF FiltersOf, Effective

\* What routes are made of.
LEMMA RoutesFacts ==
    ASSUME NEW t \in Tables, NEW u \in Users
    PROVE  /\ \A r \in Routes(t, u) :
                 /\ r.svc \in t.chosen[u] /\ r.svc \in Services
                 /\ r.prefix \in Offered(t, r.svc)
                 /\ r.prefix \in Entries(t, r.svc) /\ r.prefix \in AllPrefixes
           /\ \A svc \in t.chosen[u] : \A p \in Offered(t, svc) :
                 \E r \in Routes(t, u) : r.prefix = p /\ r.svc = svc
  <1> DEFINE E(svc) == {e \in Entries(t, svc) : e.bits # 0}
  <1>1. Routes(t, u) =
           UNION {{[prefix |-> p, svc |-> svc] : p \in E(svc)} : svc \in t.chosen[u]}
    BY DEF Routes
  <1>2. t.chosen[u] \subseteq Services
    BY DEF Tables
  <1>3. \A svc : E(svc) = Offered(t, svc) /\ E(svc) \subseteq Entries(t, svc)
    BY DEF Offered, Queried
  <1>4. \A svc \in Services : Entries(t, svc) \subseteq AllPrefixes
    BY OfferedFacts
  <1> HIDE DEF E
  <1>5. ASSUME NEW r \in Routes(t, u)
        PROVE  r.svc \in t.chosen[u] /\ r.prefix \in E(r.svc)
    BY <1>1
  <1>6. ASSUME NEW svc \in t.chosen[u], NEW p \in E(svc)
        PROVE  \E r \in Routes(t, u) : r.prefix = p /\ r.svc = svc
    <2>1. [prefix |-> p, svc |-> svc] \in Routes(t, u)
      BY <1>1
    <2> QED
      BY <2>1
  <1> QED
    BY <1>2, <1>3, <1>4, <1>5, <1>6

\* All that is offered to a user.
LEMMA OfferedToFacts ==
    ASSUME db \in Tables, NEW u \in Users
    PROVE  Addresses({r.prefix : r \in Routes(db, u)}) = OfferedTo(u)
  <1> DEFINE ps == {r.prefix : r \in Routes(db, u)}
  <1> DEFINE A(svc) == Addresses(Queried(db.content[svc]))
  <1>0. OfferedTo(u) = (UNION {A(svc) : svc \in db.chosen[u]}) \ Addresses(db.excluded)
    BY DEF OfferedTo
  <1>1. db.chosen[u] \subseteq Services
    BY DEF Tables
  <1>2. ASSUME NEW svc \in db.chosen[u]
        PROVE  Addresses(Offered(db, svc)) =
                  Addresses(Queried(db.content[svc])) \ Addresses(db.excluded)
    BY <1>1, OfferedFacts
  <1>3. ASSUME NEW x \in Addresses(ps) PROVE x \in OfferedTo(u)
    <2>1. PICK p \in ps : x \in Block(p)
      BY AddressesOf
    <2>2. PICK r \in Routes(db, u) : r.prefix = p
      OBVIOUS
    <2>3. r.svc \in db.chosen[u] /\ p \in Offered(db, r.svc)
      BY <2>2, RoutesFacts
    <2>4. x \in Addresses(Offered(db, r.svc))
      BY <2>1, <2>3, AddressesOf
    <2>5. x \in A(r.svc) \ Addresses(db.excluded)
      BY <1>2, <2>3, <2>4
    <2> HIDE DEF A
    <2> QED
      BY <1>0, <2>3, <2>5
  <1>4. ASSUME NEW x \in OfferedTo(u) PROVE x \in Addresses(ps)
    <2>1. PICK svc \in db.chosen[u] : x \in A(svc) \ Addresses(db.excluded)
      <3> HIDE DEF A
      <3> QED
        BY <1>0
    <2>2. x \in Addresses(Offered(db, svc))
      BY <1>2, <2>1
    <2>3. PICK p \in Offered(db, svc) : x \in Block(p)
      BY <2>2, AddressesOf
    <2>4. p \in ps
      BY RoutesFacts
    <2> HIDE DEF ps
    <2> QED
      BY <2>3, <2>4, AddressesOf
  <1> QED
    BY <1>3, <1>4

\* What a user is announced, while no allowed prefix is wider than a route that
\* starts where it does.
LEMMA AnnouncedFacts ==
    ASSUME FilterInv, current, NEW u \in Users, ~Widened(u)
    PROVE  Parts(announced[u], {r.prefix : r \in Routes(db, u)}, LeftTo(u))
  <1> DEFINE ps == {r.prefix : r \in Routes(db, u)}
  <1> DEFINE lists == FiltersOf(db, u)
  <1>1. db \in Tables
    BY DEF FilterInv
  <1>2. ps \in SUBSET AllPrefixes /\ lists \in FilterLists
    BY <1>1, RoutesFacts, FiltersAreLists
  <1>3. NotWidened(ps, lists.allow)
    BY DEF NotWidened, Widened
  <1>4. Apply(ps, lists).ok /\ announced[u] = Apply(ps, lists).out
    BY DEF FilterInv, CurrentInv, Desired
  <1>5. Allowed(ps, lists.allow) \ Addresses(lists.deny) = LeftTo(u)
    <2>1. Addresses(ps) = OfferedTo(u)
      BY <1>1, OfferedToFacts
    <2>2. LeftTo(u) = {a \in OfferedTo(u) :
                         /\ lists.allow # {} => a \in Addresses(lists.allow)
                         /\ a \notin Addresses(lists.deny)}
      BY DEF LeftTo
    <2> HIDE DEF ps, lists
    <2> QED
      BY <2>1, <2>2 DEF Allowed
  <1> HIDE DEF ps, lists
  <1>6. Parts(announced[u], ps, LeftTo(u))
    BY <1>2, <1>3, <1>4, <1>5, ApplyFacts
  <1> QED
    BY <1>6 DEF ps

\* One of the longest routes that hold a prefix is found if there is one.
LEMMA BestMatchFacts ==
    ASSUME NEW t \in Tables, NEW u \in Users, NEW p \in AllPrefixes,
           NEW r \in Routes(t, u), Within(p, r.prefix)
    PROVE  BestMatches(p, Routes(t, u)) # {}
  <1> DEFINE over == {q \in Routes(t, u) :
                        Holds(q.prefix, p) /\ q.prefix.bits <= p.bits}
  <1> DEFINE T == {Width - q.prefix.bits : q \in over}
  <1>1. \A q \in Routes(t, u) :
           q.prefix \in AllPrefixes /\ Width - q.prefix.bits \in Nat
           /\ q.prefix.bits \in Nat
    <2>1. \A q \in Routes(t, u) : q.prefix \in AllPrefixes
      BY RoutesFacts
    <2>2. \A q \in AllPrefixes : Width - q.bits \in 0..Width /\ q.bits \in Nat
      BY PrefixFacts
    <2> QED
      BY <2>1, <2>2, PowFacts
  <1>2. r \in over
    BY <1>1, HoldsFacts
  <1>3. T \in SUBSET Nat /\ T # {}
    BY <1>1, <1>2
  <1>4. PICK m \in T : \A k \in T : m <= k
    <2> HIDE DEF T
    <2> QED
      BY <1>3, LeastOf
  <1>5. PICK q \in over : m = Width - q.prefix.bits
    OBVIOUS
  <1>6. ASSUME NEW o \in over PROVE o.prefix.bits <= q.prefix.bits
    <2>1. Width - q.prefix.bits <= Width - o.prefix.bits
      BY <1>4, <1>5
    <2>2. q.prefix.bits \in Nat /\ o.prefix.bits \in Nat /\ Width \in Nat
      BY <1>1, PowFacts
    <2> QED
      BY <2>1, <2>2
  <1>7. q \in BestMatches(p, Routes(t, u))
    BY <1>6 DEF BestMatches
  <1> QED
    BY <1>7

\* The routes of a user (store/routes.go, DesiredPrefixes) are exactly the
\* addresses he selected, without what exclude feeds take away
\* (prefixfilter/exclude.go) and as his filters have it (prefixfilter/filter.go),
\* for feeds, filters and families of any kind.
THEOREM AnnouncedStaysExact == FilterSpec => []AnnouncedIsExact
  <1>1. FilterInv => AnnouncedIsExact
    <2> SUFFICES ASSUME FilterInv, NEW u \in Users, current, ~Widened(u)
                 PROVE
            /\ Addresses(announced[u]) = LeftTo(u)
            /\ \A p, q \in announced[u] : p # q => ~Holds(p, q)
            /\ \A p \in announced[u] :
                  LET named == BestMatches(p, Routes(db, u))
                  IN  /\ named # {}
                      /\ \A r \in named :
                            Addresses({p}) \subseteq Addresses(Entries(db, r.svc))
      BY Zenon DEF AnnouncedIsExact
    <2>1. Parts(announced[u], {r.prefix : r \in Routes(db, u)}, LeftTo(u))
      BY AnnouncedFacts
    <2>2. db \in Tables
      BY DEF FilterInv
    <2>3. ASSUME NEW p \in announced[u], NEW q \in announced[u], p # q
          PROVE  ~Holds(p, q)
      <3>1. p \in AllPrefixes /\ q \in AllPrefixes /\ Apart(p, q)
        BY <2>1, <2>3 DEF Parts, Disjoint
      <3> QED
        BY <3>1, HoldsFacts
    <2>4. ASSUME NEW p \in announced[u]
          PROVE  BestMatches(p, Routes(db, u)) # {}
      <3>1. p \in AllPrefixes /\ \E r \in Routes(db, u) : Within(p, r.prefix)
        BY <2>1 DEF Parts
      <3> QED
        BY <2>2, <3>1, BestMatchFacts
    <2>5. ASSUME NEW p \in announced[u], NEW r \in BestMatches(p, Routes(db, u))
          PROVE  Addresses({p}) \subseteq Addresses(Entries(db, r.svc))
      <3>1. /\ r \in Routes(db, u)
            /\ Holds(r.prefix, p) /\ r.prefix.bits <= p.bits
        BY DEF BestMatches
      <3>2. /\ p \in AllPrefixes /\ r.prefix \in AllPrefixes
            /\ r.prefix \in Entries(db, r.svc)
        BY <2>1, <2>2, <3>1, RoutesFacts DEF Parts
      <3>3. Within(p, r.prefix)
        BY <3>1, <3>2, Nested
      <3>4. Block(p) \subseteq Block(r.prefix)
        BY <3>2, <3>3, BlockFacts
      <3>5. Block(r.prefix) \subseteq Addresses(Entries(db, r.svc))
        BY <3>2, AddressesOf
      <3> QED
        BY <3>4, <3>5, AddressesFacts
    <2>6. Addresses(announced[u]) = LeftTo(u)
      BY <2>1 DEF Parts
    <2> QED
      BY <2>3, <2>4, <2>5, <2>6
  <1> QED
    BY <1>1, FilterInvariant, PTL

----------------------------------------------------------------------------
(* The lookup counts every address once *)

\* The larger and the smaller of two numbers.
LEMMA MaxMinOfTwo ==
    ASSUME NEW a \in Int, NEW b \in Int
    PROVE  /\ Max({a, b}) = IF a <= b THEN b ELSE a
           /\ Min({a, b}) = IF a <= b THEN a ELSE b
  <1> DEFINE m == IF a <= b THEN b ELSE a
  <1> DEFINE n == IF a <= b THEN a ELSE b
  <1>1. \A x \in {a, b} : (\A y \in {a, b} : x >= y) <=> x = m
    OBVIOUS
  <1>2. \A x \in {a, b} : (\A y \in {a, b} : x <= y) <=> x = n
    OBVIOUS
  <1>3. m \in {a, b} /\ n \in {a, b}
    OBVIOUS
  <1> HIDE DEF m, n
  <1>4. Max({a, b}) = m
    BY <1>1, <1>3 DEF Max
  <1>5. Min({a, b}) = n
    BY <1>2, <1>3 DEF Min
  <1> QED
    BY <1>4, <1>5 DEF m, n

Ranges == {r \in [from : 0..(Space - 1), to : 0..(Space - 1)] : r.from <= r.to}
Span(rs) == UNION {r.from..r.to : r \in rs}

\* An address that ranges span is in one of them.
LEMMA SpanFacts ==
    /\ Span({}) = {}
    /\ \A rs, r : Span(rs \cup {r}) = Span(rs) \cup (r.from..r.to)
    /\ \A rs, x : x \in Span(rs) <=> \E r \in rs : x \in r.from..r.to
  BY DEF Span

\* Ranges in the order of coveragePercentage.
LEMMA ByStart ==
    ASSUME NEW rs \in SUBSET Ranges, IsFiniteSet(rs)
    PROVE  \E rank :
              /\ Lists(Sorted([r \in rs |-> r.from * Space + r.to]), rs, rank)
              /\ \A r, s \in rs : rank[r] < rank[s] => r.from <= s.from
  <1> DEFINE R(r) == r.from * Space + r.to
  <1> DEFINE rank == [r \in rs |-> R(r)]
  <1> DEFINE m == Space
  <1>1. m \in Nat \ {0}
    BY SpaceFacts
  <1>2. \A r \in rs : /\ r = [from |-> r.from, to |-> r.to]
                      /\ r.from \in Nat /\ r.to \in 0..(m - 1)
    BY DEF Ranges
  <1>3. \A r \in rs : R(r) = Composed(r.from, m, r.to) /\ rank[r] = R(r)
    BY DEF Composed
  <1>4. rank \in [rs -> Int] <=> \A r \in rs : R(r) \in Int
    OBVIOUS
  <1> HIDE DEF R, rank, m
  <1>5. ASSUME NEW r \in rs, NEW s \in rs
        PROVE  /\ R(r) \in Int
               /\ R(r) = R(s) => r = s
               /\ R(r) < R(s) => r.from <= s.from
    <2>1. /\ R(r) \in Nat /\ R(s) \in Nat
          /\ R(r) = R(s) => r.from = s.from /\ r.to = s.to
      BY <1>1, <1>2, <1>3, Lexicographic
    <2>2. s.from < r.from => R(s) < R(r)
      BY <1>1, <1>2, <1>3, Lexicographic
    <2>3. R(r) < R(s) => r.from <= s.from
      BY <1>2, <2>1, <2>2
    <2> QED
      BY <1>2, <2>1, <2>3
  <1>6. rank \in [rs -> Int]
    BY <1>4, <1>5
  <1>7. \A r, s \in rs : rank[r] = rank[s] => r = s
    BY <1>3, <1>5
  <1>8. Lists(Sorted(rank), rs, rank)
    BY <1>6, <1>7, SortedFacts
  <1>9. \A r, s \in rs : rank[r] < rank[s] => r.from <= s.from
    BY <1>3, <1>5
  <1>10. Sorted(rank) = Sorted([r \in rs |-> r.from * Space + r.to])
    BY DEF rank, R
  <1> QED
    BY <1>8, <1>9, <1>10

\* One range more: the ranges before it are X, all of it below the open one.
Counted(d, X, covered) ==
    /\ d \in [all : Nat, from : Nat, to : Nat] /\ d.from <= d.to
    /\ IsFiniteSet(X) /\ Cardinality(X) = d.all /\ X \subseteq Nat
    /\ \A x \in X : x < d.from
    /\ covered = X \cup (d.from..d.to)

\* The open range is closed.
LEMMA ClosedFacts ==
    ASSUME NEW d, NEW X, NEW covered, Counted(d, X, covered)
    PROVE  IsFiniteSet(covered) /\ Cardinality(covered) = Closed(d)
           /\ Closed(d) \in Nat /\ covered \subseteq Nat
           /\ \A x \in covered : x <= d.to
  <1> DEFINE Y == d.from..d.to
  <1>1. /\ d.all \in Nat /\ d.from \in Nat /\ d.to \in Nat /\ d.from <= d.to
        /\ covered = X \cup Y
    BY DEF Counted
  <1>2. IsFiniteSet(Y) /\ Cardinality(Y) = d.to - d.from + 1
    <2> DEFINE a == d.from
    <2> DEFINE b == d.to
    <2>1. a \in Int /\ b \in Int /\ ~(a > b) /\ Y = a..b
      BY <1>1
    <2> HIDE DEF a, b, Y
    <2>2. IsFiniteSet(Y) /\ Cardinality(Y) = b - a + 1
      BY <2>1, FS_Interval
    <2> QED
      BY <2>2 DEF a, b
  <1>3. X \cap Y = {} /\ Y \subseteq Nat
    BY <1>1 DEF Counted
  <1>4. \A x \in covered : x <= d.to
    BY <1>1 DEF Counted
  <1> HIDE DEF Y
  <1>5. /\ IsFiniteSet(X \cup Y)
        /\ Cardinality(X \cup Y) =
             Cardinality(X) + Cardinality(Y) - Cardinality(X \cap Y)
    BY <1>2, FS_Union DEF Counted
  <1>6. Cardinality(X \cap Y) = 0
    BY <1>3, FS_EmptySet
  <1>7. Cardinality(covered) = Cardinality(X) + Cardinality(Y)
    <2>1. Cardinality(X) \in Int /\ Cardinality(Y) \in Int
      BY <1>1, <1>2 DEF Counted
    <2> QED
      BY <1>1, <1>5, <1>6, <2>1
  <1>8. Closed(d) = d.all + (d.to - d.from + 1) /\ Closed(d) \in Nat
    BY <1>1 DEF Closed
  <1>9. Cardinality(X) = d.all /\ X \subseteq Nat
    BY DEF Counted
  <1>10. Cardinality(covered) = Closed(d)
    BY <1>2, <1>7, <1>8, <1>9
  <1>11. IsFiniteSet(covered) /\ covered \subseteq Nat
    BY <1>1, <1>3, <1>5, <1>9
  <1> QED
    BY <1>4, <1>8, <1>10, <1>11

\* A step of coveragePercentage counts the addresses of one range more.
LEMMA ExtendedFacts ==
    ASSUME NEW d, NEW X, NEW covered, Counted(d, X, covered),
           NEW r \in Ranges, d.from <= r.from
    PROVE  /\ \E Y : Counted(Extended(d, r), Y, covered \cup (r.from..r.to))
           /\ Extended(d, r).from <= r.from
           /\ Extended(d, r) \in [all : Nat, from : Nat, to : Nat]
  <1>1. /\ d = [all |-> d.all, from |-> d.from, to |-> d.to]
        /\ d.all \in Nat /\ d.from \in Nat /\ d.to \in Nat /\ d.from <= d.to
    BY DEF Counted
  <1>2. r.from \in Nat /\ r.to \in Nat /\ r.from <= r.to
    BY DEF Ranges
  <1>3. CASE r.from <= d.to + 1
    <2> DEFINE to == IF d.to <= r.to THEN r.to ELSE d.to
    <2>1. Max({d.to, r.to}) = to
      BY <1>1, <1>2, MaxMinOfTwo
    <2>2. Extended(d, r) = [d EXCEPT !.to = Max({d.to, r.to})]
      BY <1>3 DEF Extended
    <2>3. Extended(d, r) = [all |-> d.all, from |-> d.from, to |-> to]
      BY <1>1, <2>1, <2>2
    <2>4. to \in Nat /\ d.from <= to
      BY <1>1, <1>2
    <2>5. (d.from..d.to) \cup (r.from..r.to) = d.from..to
      BY <1>1, <1>2, <1>3
    <2> HIDE DEF to
    <2>6. Counted(Extended(d, r), X, covered \cup (r.from..r.to))
      BY <1>1, <2>3, <2>4, <2>5 DEF Counted
    <2> QED
      BY <1>1, <2>3, <2>4, <2>6
  <1>4. CASE ~(r.from <= d.to + 1)
    <2>1. Extended(d, r) = [all |-> Closed(d), from |-> r.from, to |-> r.to]
      BY <1>4 DEF Extended
    <2>2. /\ IsFiniteSet(covered) /\ Cardinality(covered) = Closed(d)
          /\ Closed(d) \in Nat /\ covered \subseteq Nat
          /\ \A x \in covered : x <= d.to
      BY ClosedFacts
    <2>3. \A x \in covered : x < r.from
      BY <1>1, <1>2, <1>4, <2>2
    <2>4. Counted(Extended(d, r), covered, covered \cup (r.from..r.to))
      BY <1>2, <2>1, <2>2, <2>3 DEF Counted
    <2> QED
      BY <1>2, <2>1, <2>2, <2>4
  <1> QED
    BY <1>3, <1>4

\* coveragePercentage counts every address once, in any number of ranges that
\* overlap, nest or touch.
LEMMA CoverageFacts ==
    ASSUME NEW rs \in SUBSET Ranges, IsFiniteSet(rs)
    PROVE  IsFiniteSet(Span(rs)) /\ Coverage(rs) = Cardinality(Span(rs))
  <1> DEFINE sorted == Sorted([r \in rs |-> r.from * Space + r.to])
  <1> DEFINE last == Len(sorted)
  <1> DEFINE first == [all |-> 0, from |-> sorted[1].from, to |-> sorted[1].to]
  <1> DEFINE after[i \in 1..last] ==
        IF i = 1 THEN first ELSE Extended(after[i - 1], sorted[i])
  <1>1. Coverage(rs) = IF rs = {} THEN 0 ELSE Closed(after[last])
    BY DEF Coverage
  <1>2. CASE rs = {}
    <2>1. Span(rs) = {}
      BY <1>2, SpanFacts
    <2> HIDE DEF after
    <2> QED
      BY <1>1, <1>2, <2>1, FS_EmptySet
  <1>3. CASE rs # {}
    <2>1. PICK rank : /\ Lists(sorted, rs, rank)
                      /\ \A r, s \in rs : rank[r] < rank[s] => r.from <= s.from
      BY ByStart
    <2>2. last \in Nat \ {0} /\ \A i \in 1..last : sorted[i] \in rs
      <3> HIDE DEF sorted
      <3> QED
        BY <1>3, <2>1 DEF Lists
    <2>3. \A i \in 1..last : sorted[i] \in Ranges
      BY <2>2
    <2> HIDE DEF sorted, last
    <2>4. \A i \in 2..last : sorted[i - 1].from <= sorted[i].from
      <3>1. ASSUME NEW i \in 2..last PROVE rank[sorted[i - 1]] < rank[sorted[i]]
        <4>1. i - 1 \in 1..last /\ i \in 1..last /\ i - 1 < i
          BY <2>2
        <4> QED
          BY <2>1, <4>1 DEF Lists, last
      <3>2. ASSUME NEW i \in 2..last PROVE sorted[i - 1] \in rs /\ sorted[i] \in rs
        <4>1. i - 1 \in 1..last /\ i \in 1..last
          BY <2>2
        <4> QED
          BY <2>2, <4>1
      <3> QED
        BY <2>1, <3>1, <3>2
    <2>5. /\ first \in [all : Nat, from : Nat, to : Nat]
          /\ first.from = sorted[1].from /\ first.to = sorted[1].to
          /\ first.all = 0 /\ first.from <= first.to /\ first.from \in Nat
      <3>1. 1 \in 1..last
        BY <2>2
      <3>2. sorted[1] \in Ranges
        BY <2>3, <3>1
      <3> QED
        BY <3>2 DEF Ranges
    <2> HIDE DEF first
    <2> DEFINE V == {d \in [all : Nat, from : Nat, to : Nat] : d.from <= d.to}
    <2>6. ASSUME NEW d \in V, NEW r \in Ranges PROVE Extended(d, r) \in V
      <3>1. /\ d = [all |-> d.all, from |-> d.from, to |-> d.to]
            /\ d.all \in Nat /\ d.from \in Nat /\ d.to \in Nat /\ d.from <= d.to
        OBVIOUS
      <3>2. r.from \in Nat /\ r.to \in Nat /\ r.from <= r.to
        BY DEF Ranges
      <3>3. CASE r.from <= d.to + 1
        <4>1. Max({d.to, r.to}) = IF d.to <= r.to THEN r.to ELSE d.to
          BY <3>1, <3>2, MaxMinOfTwo
        <4>2. Extended(d, r) = [d EXCEPT !.to = Max({d.to, r.to})]
          BY <3>3 DEF Extended
        <4> QED
          BY <3>1, <3>2, <4>1, <4>2
      <3>4. CASE ~(r.from <= d.to + 1)
        <4>1. Extended(d, r) = [all |-> Closed(d), from |-> r.from, to |-> r.to]
          BY <3>4 DEF Extended
        <4>2. Closed(d) \in Nat
          BY <3>1 DEF Closed
        <4> QED
          BY <3>2, <4>1, <4>2
      <3> QED
        BY <3>3, <3>4
    <2> DEFINE step == [i \in 2..last |-> [d \in V |-> Extended(d, sorted[i])]]
    <2>7. PICK d : IsLoop(1, last, V, first, step, d)
      <3>1. step \in [(1 + 1)..last -> [V -> V]]
        <4> HIDE DEF V
        <4>1. \A i \in 2..last : sorted[i] \in Ranges
          BY <2>3
        <4>2. (1 + 1) = 2
          OBVIOUS
        <4> QED
          BY <2>6, <4>1, <4>2
      <3>2. 1 \in Nat /\ first \in V /\ 1 <= last /\ last \in Nat
        BY <2>2, <2>5
      <3> HIDE DEF V, step
      <3> QED
        BY <3>1, <3>2, LoopExists
    <2>8. d = [i \in 1..last |-> IF i = 1 THEN first ELSE Extended(d[i - 1], sorted[i])]
      <3> HIDE DEF V
      <3>1. ASSUME NEW i \in 2..last PROVE d[i] = Extended(d[i - 1], sorted[i])
        <4>1. d[i - 1] \in V /\ i \in (1 + 1)..last
          BY <2>2, <2>7 DEF IsLoop
        <4>2. d[i] = step[i][d[i - 1]]
          BY <2>7, <4>1 DEF IsLoop
        <4> QED
          BY <4>1, <4>2
      <3>2. \A i \in 1..last : i = 1 \/ i \in 2..last
        BY <2>2
      <3>3. DOMAIN d = 1..last /\ d[1] = first /\ d = [i \in 1..last |-> d[i]]
        BY <2>2, <2>7 DEF IsLoop
      <3> QED
        BY <3>1, <3>2, <3>3
    <2>9. after = [i \in 1..last |-> IF i = 1 THEN first
                                     ELSE Extended(after[i - 1], sorted[i])]
      BY <2>8
    <2> HIDE DEF after
    <2>10. after[1] = first
           /\ \A i \in 2..last : after[i] = Extended(after[i - 1], sorted[i])
      <3>1. 1 \in 1..last /\ \A i \in 2..last : i \in 1..last /\ i # 1
        BY <2>2
      <3>2. after[1] = first
        BY <2>9, <3>1
      <3>3. ASSUME NEW i \in 2..last PROVE after[i] = Extended(after[i - 1], sorted[i])
        BY <2>9, <3>1
      <3> QED
        BY <3>2, <3>3
    <2> DEFINE Done(i) == /\ \E X : Counted(after[i], X, Span(Upto(sorted, i)))
                          /\ after[i].from <= sorted[i].from
                          /\ after[i].from \in Nat
    <2> DEFINE S == {n \in 0..(last - 1) : Done(n + 1)}
    <2>11. 0 \in S
      <3>1. Upto(sorted, 1) = {sorted[1]}
        BY DEF Upto
      <3>2. Span({sorted[1]}) = sorted[1].from..sorted[1].to
        BY DEF Span
      <3>3. Counted(first, {}, first.from..first.to)
        BY <2>5, FS_EmptySet DEF Counted
      <3>4. Counted(after[1], {}, Span(Upto(sorted, 1)))
        BY <2>5, <2>10, <3>1, <3>2, <3>3
      <3>5. Done(1)
        BY <2>5, <2>10, <3>4
      <3> QED
        BY <2>2, <3>5
    <2>12. ASSUME NEW n \in 1..(last - 1), n - 1 \in S PROVE n \in S
      <3> DEFINE was == after[n]
      <3> DEFINE r == sorted[n + 1]
      <3> DEFINE U == Upto(sorted, n)
      <3>1. /\ n + 1 \in 2..last /\ n + 1 \in 1..last /\ n \in 1..last
            /\ (n + 1) - 1 = n /\ (n - 1) + 1 = n /\ n \in 0..(last - 1)
        BY <2>2
      <3>2. Done(n)
        BY <2>12, <3>1
      <3>3. after[n + 1] = Extended(was, r) /\ r \in Ranges /\ sorted[n] \in Ranges
        BY <2>3, <2>10, <3>1
      <3>4. Upto(sorted, n + 1) = U \cup {r}
        BY <2>1, <3>1, UptoFacts DEF last
      <3>5. was.from <= r.from /\ r.from \in Nat
        <4>1. was.from <= sorted[n].from /\ was.from \in Nat
          BY <3>2
        <4>2. sorted[n].from <= r.from
          BY <2>4, <3>1
        <4>3. sorted[n].from \in Nat /\ r.from \in Nat
          BY <3>3 DEF Ranges
        <4> QED
          BY <4>1, <4>2, <4>3
      <3>6. PICK X : Counted(was, X, Span(U))
        BY <3>2
      <3> HIDE DEF was, r, U
      <3>7. /\ \E Y : Counted(Extended(was, r), Y, Span(U) \cup (r.from..r.to))
            /\ Extended(was, r).from <= r.from
            /\ Extended(was, r).from \in Nat
        BY <3>3, <3>5, <3>6, ExtendedFacts
      <3>8. Span(U \cup {r}) = Span(U) \cup (r.from..r.to)
        BY SpanFacts
      <3>9. /\ \E Y : Counted(after[n + 1], Y, Span(Upto(sorted, n + 1)))
            /\ after[n + 1].from <= r.from /\ after[n + 1].from \in Nat
        BY <3>3, <3>4, <3>7, <3>8
      <3>10. Done(n + 1)
        BY <3>9 DEF r
      <3> QED
        BY <3>1, <3>10
    <2>13. last - 1 \in S
      <3>1. last - 1 \in Nat /\ last - 1 \in 0..(last - 1)
        BY <2>2
      <3> HIDE DEF S
      <3>2. \A i \in 0..(last - 1) : i \in S
        BY <2>11, <2>12, <3>1, AlongList
      <3> QED
        BY <3>1, <3>2
    <2>14. Upto(sorted, last) = rs
      BY <2>1, UptoFacts DEF last
    <2>15. PICK X : Counted(after[last], X, Span(rs))
      <3>1. (last - 1) + 1 = last
        BY <2>2
      <3> QED
        BY <2>13, <2>14, <3>1
    <2> QED
      BY <1>1, <1>3, <2>15, ClosedFacts
  <1> QED
    BY <1>2, <1>3

\* The ranges that coveragePercentage is given are the common addresses.
LEMMA OverlapsFacts ==
    ASSUME NEW target \in AllPrefixes, NEW ps \in SUBSET AllPrefixes
    PROVE  LET common == Block(target) \cap Addresses(ps)
           IN  /\ IsFiniteSet(common)
               /\ Coverage(Overlaps(target, ps)) = Cardinality(common)
               /\ Overlaps(target, ps) = {} <=> common = {}
  <1> DEFINE common == Block(target) \cap Addresses(ps)
  <1> DEFINE from(p) == Max({p.addr, target.addr})
  <1> DEFINE to(p) == Min({lastAddr(p), lastAddr(target)})
  <1> DEFINE range(p) == [from |-> from(p), to |-> to(p)]
  <1> DEFINE near == {p \in ps : Holds(target, p) \/ Holds(p, target)}
  <1> DEFINE rs == Overlaps(target, ps)
  <1>1. rs = {range(p) : p \in near}
    BY DEF Overlaps
  <1>2. ASSUME NEW p \in ps
        PROVE  /\ p \in near => range(p) \in Ranges
               /\ p \in near => \A a : a \in from(p)..to(p) <=>
                     <<target.fam, a>> \in Block(target) \cap Block(p)
               /\ p \notin near => Block(target) \cap Block(p) = {}
    <2>1. /\ p \in AllPrefixes /\ p.addr \in Nat /\ target.addr \in Nat
          /\ lastAddr(p) \in Nat /\ lastAddr(target) \in Nat
          /\ p.addr <= lastAddr(p) /\ target.addr <= lastAddr(target)
          /\ lastAddr(p) < Space /\ lastAddr(target) < Space
          /\ p.bits \in Nat /\ target.bits \in Nat /\ Space \in Nat
      BY PrefixFacts, SpaceFacts
    <2>2. /\ from(p) = IF p.addr <= target.addr THEN target.addr ELSE p.addr
          /\ to(p) = IF lastAddr(p) <= lastAddr(target) THEN lastAddr(p)
                     ELSE lastAddr(target)
      <3> DEFINE x == lastAddr(p)
      <3> DEFINE y == lastAddr(target)
      <3>1. x \in Int /\ y \in Int /\ p.addr \in Int /\ target.addr \in Int
        BY <2>1
      <3> HIDE DEF x, y
      <3>2. Min({x, y}) = IF x <= y THEN x ELSE y
        BY <3>1, MaxMinOfTwo
      <3>3. Max({p.addr, target.addr}) =
              IF p.addr <= target.addr THEN target.addr ELSE p.addr
        BY <3>1, MaxMinOfTwo
      <3> QED
        BY <3>2, <3>3 DEF x, y
    <2> HIDE DEF from, to
    <2>3. CASE p \in near
      <3>1. ~Apart(p, target)
        BY <2>1, <2>3, HoldsFacts
      <3>2. /\ p.fam = target.fam /\ target.addr <= lastAddr(p)
            /\ p.addr <= lastAddr(target)
        BY <2>1, <3>1 DEF Apart
      <3>3. from(p) \in 0..(Space - 1) /\ to(p) \in 0..(Space - 1)
            /\ from(p) <= to(p)
        BY <2>1, <2>2, <3>2
      <3>4. ASSUME NEW a
            PROVE  a \in from(p)..to(p) <=>
                      <<target.fam, a>> \in Block(target) \cap Block(p)
        <4>1. <<target.fam, a>> \in Block(target) \cap Block(p) <=>
                a \in target.addr..lastAddr(target) /\ a \in p.addr..lastAddr(p)
          BY <3>2 DEF Block
        <4>2. a \in from(p)..to(p) <=>
                a \in target.addr..lastAddr(target) /\ a \in p.addr..lastAddr(p)
          BY <2>1, <2>2
        <4> QED
          BY <4>1, <4>2
      <3> QED
        BY <2>3, <3>3, <3>4 DEF Ranges
    <2>4. CASE p \notin near
      <3>1. Apart(target, p)
        BY <2>1, <2>4, Nested, HoldsFacts
      <3> QED
        BY <2>1, <2>4, <3>1, BlockFacts
    <2> QED
      BY <2>3, <2>4
  <1>3. near \subseteq ps
    OBVIOUS
  <1> HIDE DEF near, range, from, to
  <1>4. rs \in SUBSET Ranges
    BY <1>1, <1>2, <1>3
  <1>5. IsFiniteSet(rs)
    <2>1. IsFiniteSet(near)
      <3>1. near \in SUBSET AllPrefixes
        BY <1>3
      <3> QED
        BY <3>1, FinitePrefixes, FS_Subset
    <2> DEFINE f == [p \in near |-> range(p)]
    <2>2. f \in Surjection(near, rs)
      BY <1>1 DEF Surjection
    <2> HIDE DEF f, rs
    <2> QED
      BY <2>1, <2>2, FS_Surjection
  <1>6. IsFiniteSet(Span(rs)) /\ Coverage(rs) = Cardinality(Span(rs))
    BY <1>4, <1>5, CoverageFacts
  <1>7. \A a : a \in Span(rs) <=> <<target.fam, a>> \in common
    <2>1. ASSUME NEW a \in Span(rs) PROVE <<target.fam, a>> \in common
      <3>1. PICK r \in rs : a \in r.from..r.to
        BY SpanFacts
      <3>2. PICK p \in near : r = range(p)
        BY <1>1
      <3>3. r.from = from(p) /\ r.to = to(p)
        BY <3>2 DEF range
      <3>4. <<target.fam, a>> \in Block(target) \cap Block(p)
        BY <1>2, <1>3, <3>1, <3>3
      <3> QED
        BY <1>3, <3>4, AddressesOf
    <2>2. ASSUME NEW a, <<target.fam, a>> \in common PROVE a \in Span(rs)
      <3>1. PICK p \in ps : <<target.fam, a>> \in Block(p)
        BY <2>2, AddressesOf
      <3>2. <<target.fam, a>> \in Block(target) \cap Block(p)
        BY <2>2, <3>1
      <3>3. p \in near /\ a \in from(p)..to(p)
        BY <1>2, <3>2
      <3>4. range(p) \in rs /\ range(p).from = from(p) /\ range(p).to = to(p)
        BY <1>1, <3>3 DEF range
      <3> HIDE DEF rs
      <3> QED
        BY <3>3, <3>4, SpanFacts
    <2> QED
      BY <2>1, <2>2
  <1>8. \A x \in common : \E a \in Span(rs) : x = <<target.fam, a>>
    <2> SUFFICES ASSUME NEW x \in common
                 PROVE  \E a \in Span(rs) : x = <<target.fam, a>>
      OBVIOUS
    <2>1. PICK a : x = <<target.fam, a>>
      BY DEF Block
    <2> QED
      BY <1>7, <2>1
  <1> DEFINE g == [a \in Span(rs) |-> <<target.fam, a>>]
  <1>9. g \in Bijection(Span(rs), common)
    <2> HIDE DEF common, rs
    <2>1. g \in [Span(rs) -> common]
      BY <1>7
    <2>2. \A a, b \in Span(rs) : g[a] = g[b] => a = b
      OBVIOUS
    <2>3. \A x \in common : \E a \in Span(rs) : g[a] = x
      BY <1>8
    <2> HIDE DEF g
    <2> QED
      BY <2>1, <2>2, <2>3 DEF Bijection, Injection, IsInjective, Surjection
  <1>10. IsFiniteSet(common) /\ Cardinality(common) = Cardinality(Span(rs))
    <2> HIDE DEF common, rs, g
    <2> QED
      BY <1>6, <1>9, FS_Bijection DEF ExistsBijection
  <1>11. rs = {} <=> common = {}
    <2>1. rs = {} => Span(rs) = {}
      BY SpanFacts
    <2>2. ASSUME NEW r \in rs PROVE r.from \in Span(rs)
      <3>1. r.from \in r.from..r.to
        BY <1>4 DEF Ranges
      <3> QED
        BY <3>1, SpanFacts
    <2> HIDE DEF common, rs
    <2> QED
      BY <1>7, <1>8, <2>1, <2>2
  <1> QED
    BY <1>6, <1>10, <1>11

\* The prefixes userCoverage starts from are those of the user that have
\* addresses in common with the target.
LEMMA LookedUpFacts ==
    ASSUME db \in Tables, NEW u \in Users, NEW target \in AllPrefixes
    PROVE  LET mine == db.chosen[u] \cap Matching(db, target)
               ps   == {p \in UNION {Offered(db, svc) : svc \in mine} :
                           p.fam = target.fam}
           IN  /\ ps \subseteq {r.prefix : r \in Routes(db, u)}
               /\ ps \subseteq AllPrefixes
               /\ Block(target) \cap Addresses(ps) = Block(target) \cap OfferedTo(u)
  <1> DEFINE mine == db.chosen[u] \cap Matching(db, target)
  <1> DEFINE ps == {p \in UNION {Offered(db, svc) : svc \in mine} :
                       p.fam = target.fam}
  <1> DEFINE all == {r.prefix : r \in Routes(db, u)}
  <1>1. \A svc \in db.chosen[u] : Offered(db, svc) \subseteq all
    BY RoutesFacts
  <1>2. mine \subseteq db.chosen[u]
    OBVIOUS
  <1>3. ps \subseteq all
    <2> HIDE DEF mine, all
    <2> QED
      BY <1>1, <1>2
  <1>4. all \subseteq AllPrefixes
    BY RoutesFacts
  <1>5. Addresses(all) = OfferedTo(u)
    BY OfferedToFacts
  <1>6. ASSUME NEW x \in Block(target), x \in Addresses(all)
        PROVE  x \in Addresses(ps)
    <2>1. PICK p \in all : x \in Block(p)
      BY <1>6, AddressesOf
    <2>2. PICK r \in Routes(db, u) : r.prefix = p
      OBVIOUS
    <2>3. /\ r.svc \in db.chosen[u] /\ r.svc \in Services
          /\ p \in Offered(db, r.svc)
      BY <2>2, RoutesFacts
    <2>4. p.fam = target.fam
      BY <2>1 DEF Block
    <2>5. x \in Addresses(Offered(db, r.svc))
      BY <2>1, <2>3, AddressesOf
    <2>6. Offered(db, r.svc) \in SUBSET AllPrefixes
      BY <2>3, OfferedFacts DEF Offered, Queried
    <2>7. Overlaps(target, Offered(db, r.svc)) # {}
      BY <2>5, <2>6, OverlapsFacts
    <2>8. r.svc \in mine
      BY <2>3, <2>7 DEF Matching
    <2>9. p \in ps
      BY <2>3, <2>4, <2>8
    <2> HIDE DEF ps
    <2> QED
      BY <2>1, <2>9, AddressesOf
  <1> HIDE DEF ps, all
  <1>7. Addresses(ps) \subseteq Addresses(all)
    BY <1>3, AddressesOf
  <1>8. Block(target) \cap Addresses(ps) = Block(target) \cap OfferedTo(u)
    BY <1>5, <1>6, <1>7
  <1> QED
    BY <1>3, <1>4, <1>8 DEF ps, all

\* What the address lookup (web/cidr_debug.go, userCoverage) says is so: the
\* numbers of addresses count every one once (coveragePercentage), and applying
\* the filters to the matching services only makes no difference.
THEOREM LookupStaysTrue == FilterSpec => []LookupIsTrue
  <1>1. FilterInv => LookupIsTrue
    <2> SUFFICES ASSUME FilterInv, NEW u \in Users, current, ~Widened(u),
                        NEW target \in AllPrefixes, Lookup(db, u, target).ok
                 PROVE
          LET said  == Lookup(db, u, target)
              asked == Addresses({target})
              got   == asked \cap Addresses(announced[u])
          IN  /\ \A svc \in Services :
                    LET there == asked \cap Addresses(Offered(db, svc))
                    IN  IF svc \in DOMAIN said.covers
                        THEN said.covers[svc] = Cardinality(there)
                        ELSE there = {}
              /\ said.before = Cardinality(asked \cap OfferedTo(u))
              /\ said.after = Cardinality(got)
              /\ said.tunnel <=> got # {}
      BY Zenon DEF LookupIsTrue
    <2> DEFINE said == Lookup(db, u, target)
    <2> DEFINE asked == Addresses({target})
    <2> DEFINE got == asked \cap Addresses(announced[u])
    <2> DEFINE mine == db.chosen[u] \cap Matching(db, target)
    <2> DEFINE ps == {p \in UNION {Offered(db, svc) : svc \in mine} :
                         p.fam = target.fam}
    <2> DEFINE lists == FiltersOf(db, u)
    <2> DEFINE left == Apply(ps, lists)
    <2> DEFINE before == Coverage(Overlaps(target, ps))
    <2> DEFINE after == IF before = 0 THEN 0
                        ELSE Coverage(Overlaps(target, left.out))
    <2>1. db \in Tables
      BY DEF FilterInv
    <2>2. asked = Block(target)
      BY AddressesFacts
    <2>3. /\ said.ok = (before = 0 \/ left.ok)
          /\ said.before = before /\ said.after = after
          /\ said.tunnel = (after > 0)
          /\ said.covers = [svc \in Matching(db, target) |->
                              Coverage(Overlaps(target, Offered(db, svc)))]
      BY DEF Lookup
    <2>4. ASSUME NEW svc \in Services
          PROVE  LET there == asked \cap Addresses(Offered(db, svc))
                 IN  IF svc \in DOMAIN said.covers
                     THEN said.covers[svc] = Cardinality(there)
                     ELSE there = {}
      <3> DEFINE o == Offered(db, svc)
      <3>1. o \in SUBSET AllPrefixes
        BY <2>1, OfferedFacts DEF Offered, Queried
      <3>2. svc \in Matching(db, target) <=> Overlaps(target, o) # {}
        BY DEF Matching
      <3>3. DOMAIN said.covers = Matching(db, target)
        BY <2>3
      <3>4. svc \in Matching(db, target) =>
               said.covers[svc] = Coverage(Overlaps(target, o))
        BY <2>3
      <3> HIDE DEF o, said, asked
      <3>5. /\ Coverage(Overlaps(target, o)) = Cardinality(asked \cap Addresses(o))
            /\ Overlaps(target, o) = {} <=> asked \cap Addresses(o) = {}
        BY <2>2, <3>1, OverlapsFacts
      <3> QED
        BY <3>2, <3>3, <3>4, <3>5 DEF o
    <2>5. /\ ps \subseteq {r.prefix : r \in Routes(db, u)}
          /\ ps \in SUBSET AllPrefixes
          /\ asked \cap Addresses(ps) = asked \cap OfferedTo(u)
      BY <2>1, <2>2, LookedUpFacts
    <2>6. lists \in FilterLists
      BY <2>1, FiltersAreLists
    <2>7. NotWidened(ps, lists.allow)
      <3>1. \A p \in ps : \E r \in Routes(db, u) : p = r.prefix
        BY <2>5
      <3> HIDE DEF ps
      <3> QED
        BY <3>1 DEF NotWidened, Widened
    <2>8. Addresses(announced[u]) = LeftTo(u)
      BY AnnouncedFacts DEF Parts
    <2>9. \A a : a \in LeftTo(u) <=> /\ a \in OfferedTo(u)
                                     /\ lists.allow # {} => a \in Addresses(lists.allow)
                                     /\ a \notin Addresses(lists.deny)
      BY DEF LeftTo
    <2> HIDE DEF ps, lists, said, asked, mine
    <2>10. before = Cardinality(asked \cap OfferedTo(u))
           /\ IsFiniteSet(asked \cap OfferedTo(u))
      BY <2>2, <2>5, OverlapsFacts
    <2>11. after = Cardinality(got) /\ IsFiniteSet(got)
      <3>1. CASE before = 0
        <4>1. asked \cap OfferedTo(u) = {}
          BY <2>10, <3>1, FS_EmptySet
        <4>2. got = {}
          BY <2>8, <2>9, <4>1
        <4> HIDE DEF got, before
        <4> QED
          BY <3>1, <4>2, FS_EmptySet
      <3>2. CASE before # 0
        <4>1. left.ok
          BY <2>3, <3>2 DEF said
        <4>2. Parts(left.out, ps, Allowed(ps, lists.allow) \ Addresses(lists.deny))
          BY <2>5, <2>6, <2>7, <4>1, ApplyFacts
        <4>3. left.out \in SUBSET AllPrefixes
          BY <4>2 DEF Parts
        <4>4. asked \cap Addresses(left.out) = got
          <5>1. Addresses(left.out) = Allowed(ps, lists.allow) \ Addresses(lists.deny)
            BY <4>2 DEF Parts
          <5> HIDE DEF left
          <5> QED
            BY <2>5, <2>8, <2>9, <5>1 DEF Allowed
        <4>5. after = Coverage(Overlaps(target, left.out))
          BY <3>2
        <4> HIDE DEF left, got, after, before
        <4> QED
          BY <2>2, <4>3, <4>4, <4>5, OverlapsFacts
      <3> QED
        BY <3>1, <3>2
    <2>12. after > 0 <=> got # {}
      <3> HIDE DEF after, got
      <3>1. after \in Nat /\ (after = 0 <=> got = {})
        BY <2>11, FS_CardinalityType, FS_EmptySet
      <3> QED
        BY <3>1
    <2>13. said.before = Cardinality(asked \cap OfferedTo(u))
      BY <2>3, <2>10
    <2>14. said.after = Cardinality(got) /\ (said.tunnel <=> got # {})
      <3> HIDE DEF after, got, before
      <3> QED
        BY <2>3, <2>11, <2>12
    <2> HIDE DEF got
    <2> QED
      BY <2>4, <2>13, <2>14 DEF said, asked, got
  <1> QED
    BY <1>1, FilterInvariant, PTL

----------------------------------------------------------------------------
(* Networks are advised as the largest blocks *)

Separate(rs) ==
    \A r, s \in rs : r # s => r.to + 1 < s.from \/ s.to + 1 < r.from
RangesIn(ps) == {RangeOf(p) : p \in ps}

\* The ranges of prefixes.
LEMMA RangesInFacts ==
    ASSUME NEW ps \in SUBSET AllPrefixes
    PROVE  /\ RangesIn(ps) \subseteq Ranges
           /\ \A p \in AllPrefixes : /\ RangeOf(p) \in Ranges
                                     /\ RangeOf(p).from = p.addr
                                     /\ RangeOf(p).to = lastAddr(p)
           /\ \A p : RangesIn(ps \cup {p}) = RangesIn(ps) \cup {RangeOf(p)}
  <1>1. ASSUME NEW p \in AllPrefixes PROVE RangeOf(p) \in Ranges
    <2>1. /\ p.addr \in Nat /\ lastAddr(p) \in Nat /\ p.addr <= lastAddr(p)
          /\ lastAddr(p) < Space /\ Space \in Nat
      BY PrefixFacts, SpaceFacts
    <2>2. p.addr \in 0..(Space - 1) /\ lastAddr(p) \in 0..(Space - 1)
      BY <2>1
    <2> QED
      BY <2>1, <2>2 DEF RangeOf, Ranges
  <1>2. \A p \in ps : p \in AllPrefixes
    OBVIOUS
  <1>3. RangesIn(ps) \subseteq Ranges
    BY <1>1, <1>2 DEF RangesIn
  <1>4. \A p : RangesIn(ps \cup {p}) = RangesIn(ps) \cup {RangeOf(p)}
    BY DEF RangesIn
  <1> QED
    BY <1>1, <1>3, <1>4 DEF RangeOf

\* Ranges done and the one that is still open cover what is covered so far.
Gathered(d, covered) ==
    /\ d \in [done : SUBSET Ranges, last : Ranges]
    /\ Separate(d.done)
    /\ \A s \in d.done : s.to + 1 < d.last.from
    /\ Span(d.done \cup {d.last}) = covered

\* A range more extends the open range, or closes it.
LEMMA MergedType ==
    ASSUME NEW d \in [done : SUBSET Ranges, last : Ranges], NEW r \in Ranges
    PROVE  /\ Merged(d, r) \in [done : SUBSET Ranges, last : Ranges]
           /\ r.from <= d.last.to + 1 =>
                Merged(d, r) =
                  [done |-> d.done,
                   last |-> [from |-> d.last.from,
                             to |-> IF d.last.to <= r.to THEN r.to ELSE d.last.to]]
           /\ ~(r.from <= d.last.to + 1) =>
                Merged(d, r) = [done |-> d.done \cup {d.last}, last |-> r]
  <1> DEFINE o == d.last
  <1> DEFINE to == IF o.to <= r.to THEN r.to ELSE o.to
  <1>1. /\ o \in Ranges /\ d.done \in SUBSET Ranges
        /\ o = [from |-> o.from, to |-> o.to] /\ d = [done |-> d.done, last |-> o]
    BY DEF Ranges
  <1>2. /\ o.from \in 0..(Space - 1) /\ o.to \in 0..(Space - 1) /\ o.from <= o.to
        /\ r.to \in 0..(Space - 1) /\ r.from \in 0..(Space - 1)
        /\ Space \in Nat
    BY <1>1, SpaceFacts DEF Ranges
  <1>3. CASE r.from <= o.to + 1
    <2>1. Max({o.to, r.to}) = to
      BY <1>2, MaxMinOfTwo
    <2>2. Merged(d, r) = [d EXCEPT !.last.to = Max({d.last.to, r.to})]
      BY <1>3 DEF Merged
    <2>3. Merged(d, r) = [done |-> d.done, last |-> [from |-> o.from, to |-> to]]
      BY <1>1, <2>1, <2>2
    <2>4. [from |-> o.from, to |-> to] \in Ranges
      BY <1>2 DEF Ranges
    <2> HIDE DEF to
    <2>5. Merged(d, r) \in [done : SUBSET Ranges, last : Ranges]
      BY <1>1, <2>3, <2>4
    <2> QED
      BY <1>3, <2>3, <2>5 DEF to
  <1>4. CASE ~(r.from <= o.to + 1)
    <2>1. Merged(d, r) = [done |-> d.done \cup {d.last}, last |-> r]
      BY <1>4 DEF Merged, Opened
    <2> QED
      BY <1>1, <1>4, <2>1
  <1> QED
    BY <1>3, <1>4

\* Merging a range that starts no earlier than the open one keeps the closed
\* ranges separate, with a gap before the open one.
LEMMA MergedFacts ==
    ASSUME NEW d, NEW covered, Gathered(d, covered),
           NEW r \in Ranges, d.last.from <= r.from
    PROVE  /\ Gathered(Merged(d, r), covered \cup (r.from..r.to))
           /\ Merged(d, r).last.from <= r.from
  <1> DEFINE o == d.last
  <1> DEFINE new == Merged(d, r)
  <1>1. /\ d \in [done : SUBSET Ranges, last : Ranges]
        /\ o \in Ranges /\ d.done \in SUBSET Ranges
        /\ Separate(d.done) /\ \A s \in d.done : s.to + 1 < o.from
    BY DEF Gathered
  <1>2. /\ o.from \in Nat /\ o.to \in Nat /\ o.from <= o.to
        /\ r.to \in Nat /\ r.from \in Nat /\ r.from <= r.to
        /\ o.from <= r.from
    BY <1>1 DEF Ranges
  <1>3. covered = Span(d.done) \cup (o.from..o.to)
    BY SpanFacts DEF Gathered
  <1>4. new \in [done : SUBSET Ranges, last : Ranges]
    BY <1>1, MergedType
  <1>5. CASE r.from <= o.to + 1
    <2> DEFINE to == IF o.to <= r.to THEN r.to ELSE o.to
    <2>1. new = [done |-> d.done, last |-> [from |-> o.from, to |-> to]]
      BY <1>1, <1>5, MergedType
    <2>2. new.done = d.done /\ new.last.from = o.from /\ new.last.to = to
      BY <2>1
    <2>3. (o.from..o.to) \cup (r.from..r.to) = o.from..to
      BY <1>2, <1>5
    <2> HIDE DEF o, to, new
    <2>4. Span(new.done \cup {new.last}) = Span(d.done) \cup (o.from..to)
      BY <2>2, SpanFacts
    <2>5. Span(new.done \cup {new.last}) = covered \cup (r.from..r.to)
      BY <1>3, <2>3, <2>4
    <2>6. Gathered(new, covered \cup (r.from..r.to))
      BY <1>1, <1>4, <2>2, <2>5 DEF Gathered
    <2> QED
      BY <1>2, <2>2, <2>6 DEF new
  <1>6. CASE ~(r.from <= o.to + 1)
    <2>1. new = [done |-> d.done \cup {d.last}, last |-> r]
      BY <1>1, <1>6, MergedType
    <2>2. new.done = d.done \cup {o} /\ new.last = r
      BY <2>1
    <2>3. Separate(d.done \cup {o})
      BY <1>1, <1>2 DEF Separate
    <2>4. o.to + 1 < r.from
      BY <1>2, <1>6
    <2>5. \A s \in d.done : s.to + 1 < r.from
      <3>1. \A s \in d.done : s.to \in Nat
        BY <1>1 DEF Ranges
      <3> QED
        BY <1>1, <1>2, <3>1
    <2> HIDE DEF o, new
    <2>6. Span(new.done \cup {new.last}) = covered \cup (r.from..r.to)
      <3>1. Span(d.done \cup {o}) = covered
        BY <1>3, SpanFacts
      <3> QED
        BY <2>2, <3>1, SpanFacts
    <2>7. Gathered(new, covered \cup (r.from..r.to))
      BY <1>4, <2>2, <2>3, <2>4, <2>5, <2>6 DEF Gathered
    <2> QED
      BY <1>2, <2>2, <2>7 DEF new
  <1> QED
    BY <1>5, <1>6

\* A family becomes ranges with gaps between them.
LEMMA RangesOfFacts ==
    ASSUME NEW f \in Families, NEW ps \in SUBSET AllPrefixes,
           \A p \in ps : p.fam = f
    PROVE  /\ RangesOf(ps) \subseteq Ranges /\ Separate(RangesOf(ps))
           /\ Span(RangesOf(ps)) = Span(RangesIn(ps))
  <1> DEFINE sorted == SortedByAddress(ps)
  <1> DEFINE last == Len(sorted)
  <1> DEFINE first == [done |-> {}, last |-> RangeOf(sorted[1])]
  <1> DEFINE after[i \in 1..last] ==
        IF i = 1 THEN first ELSE Merged(after[i - 1], RangeOf(sorted[i]))
  <1>1. RangesOf(ps) = IF ps = {} THEN {} ELSE after[last].done \cup {after[last].last}
    BY DEF RangesOf
  <1>2. CASE ps = {}
    <2>1. RangesOf(ps) = {}
      BY <1>1, <1>2
    <2>2. RangesIn(ps) = {}
      BY <1>2 DEF RangesIn
    <2> QED
      BY <2>1, <2>2 DEF Separate
  <1>3. CASE ps # {}
    <2>1. PICK rank : /\ Lists(sorted, ps, rank)
                      /\ \A p, q \in ps : rank[p] < rank[q] =>
                            p # q /\ (p.fam = q.fam => p.addr <= q.addr)
      BY ByAddress
    <2>2. last \in Nat \ {0} /\ \A i \in 1..last : sorted[i] \in ps
      <3> HIDE DEF sorted
      <3> QED
        BY <1>3, <2>1 DEF Lists
    <2> HIDE DEF sorted, last
    <2>3. \A i \in 1..last : /\ sorted[i] \in AllPrefixes
                             /\ RangeOf(sorted[i]) \in Ranges
                             /\ RangeOf(sorted[i]).from = sorted[i].addr
                             /\ sorted[i].addr \in Nat
      BY <2>2, RangesInFacts, PrefixFacts
    <2>4. \A i \in 2..last : sorted[i - 1].addr <= sorted[i].addr
      <3>1. ASSUME NEW i \in 2..last PROVE rank[sorted[i - 1]] < rank[sorted[i]]
        <4>1. i - 1 \in 1..last /\ i \in 1..last /\ i - 1 < i
          BY <2>2
        <4> QED
          BY <2>1, <4>1 DEF Lists, last
      <3>2. ASSUME NEW i \in 2..last PROVE sorted[i - 1] \in ps /\ sorted[i] \in ps
        <4>1. i - 1 \in 1..last /\ i \in 1..last
          BY <2>2
        <4> QED
          BY <2>2, <4>1
      <3> QED
        BY <2>1, <3>1, <3>2
    <2> DEFINE V == [done : SUBSET Ranges, last : Ranges]
    <2>5. 1 \in 1..last /\ first \in V /\ first.done = {}
          /\ first.last = RangeOf(sorted[1])
      BY <2>2, <2>3
    <2> HIDE DEF first
    <2> DEFINE step == [i \in 2..last |-> [d \in V |-> Merged(d, RangeOf(sorted[i]))]]
    <2>6. PICK d : IsLoop(1, last, V, first, step, d)
      <3>1. step \in [(1 + 1)..last -> [V -> V]]
        <4>1. \A i \in 2..last : RangeOf(sorted[i]) \in Ranges
          BY <2>3
        <4>2. \A d \in V, r \in Ranges : Merged(d, r) \in V
          BY MergedType
        <4>3. (1 + 1) = 2
          OBVIOUS
        <4> HIDE DEF V
        <4> QED
          BY <4>1, <4>2, <4>3
      <3>2. 1 \in Nat /\ first \in V /\ 1 <= last /\ last \in Nat
        BY <2>2, <2>5
      <3> HIDE DEF V, step
      <3> QED
        BY <3>1, <3>2, LoopExists
    <2>7. d = [i \in 1..last |-> IF i = 1 THEN first
                                 ELSE Merged(d[i - 1], RangeOf(sorted[i]))]
      <3> HIDE DEF V
      <3>1. ASSUME NEW i \in 2..last
            PROVE  d[i] = Merged(d[i - 1], RangeOf(sorted[i]))
        <4>1. d[i - 1] \in V /\ i \in (1 + 1)..last
          BY <2>2, <2>6 DEF IsLoop
        <4>2. d[i] = step[i][d[i - 1]]
          BY <2>6, <4>1 DEF IsLoop
        <4> QED
          BY <4>1, <4>2
      <3>2. \A i \in 1..last : i = 1 \/ i \in 2..last
        BY <2>2
      <3>3. DOMAIN d = 1..last /\ d[1] = first /\ d = [i \in 1..last |-> d[i]]
        BY <2>2, <2>6 DEF IsLoop
      <3> QED
        BY <3>1, <3>2, <3>3
    <2>8. after = [i \in 1..last |-> IF i = 1 THEN first
                                     ELSE Merged(after[i - 1], RangeOf(sorted[i]))]
      BY <2>7
    <2> HIDE DEF after
    <2>9. after[1] = first
          /\ \A i \in 2..last : after[i] = Merged(after[i - 1], RangeOf(sorted[i]))
      <3>1. 1 \in 1..last /\ \A i \in 2..last : i \in 1..last /\ i # 1
        BY <2>2
      <3>2. after[1] = first
        BY <2>8, <3>1
      <3>3. ASSUME NEW i \in 2..last
            PROVE  after[i] = Merged(after[i - 1], RangeOf(sorted[i]))
        BY <2>8, <3>1
      <3> QED
        BY <3>2, <3>3
    <2> DEFINE Done(i) == /\ Gathered(after[i], Span(RangesIn(Upto(sorted, i))))
                          /\ after[i].last.from <= sorted[i].addr
    <2> DEFINE S == {n \in 0..(last - 1) : Done(n + 1)}
    <2>10. 0 \in S
      <3>1. Upto(sorted, 1) = {sorted[1]}
        BY DEF Upto
      <3>2. RangesIn({sorted[1]}) = {RangeOf(sorted[1])}
        BY DEF RangesIn
      <3>3. {} \cup {RangeOf(sorted[1])} = {RangeOf(sorted[1])}
        OBVIOUS
      <3>4. Gathered(first, Span(RangesIn(Upto(sorted, 1))))
        BY <2>5, <3>1, <3>2, <3>3 DEF Gathered, Separate
      <3>5. after[1].last.from <= sorted[1].addr
        BY <2>3, <2>5, <2>9
      <3>6. Done(1)
        BY <2>9, <3>4, <3>5
      <3> QED
        BY <2>2, <3>6
    <2>11. ASSUME NEW n \in 1..(last - 1), n - 1 \in S PROVE n \in S
      <3> DEFINE was == after[n]
      <3> DEFINE p == sorted[n + 1]
      <3> DEFINE U == Upto(sorted, n)
      <3>1. /\ n + 1 \in 2..last /\ n + 1 \in 1..last /\ n \in 1..last
            /\ (n + 1) - 1 = n /\ (n - 1) + 1 = n /\ n \in 0..(last - 1)
        BY <2>2
      <3>2. Done(n)
        BY <2>11, <3>1
      <3>3. /\ after[n + 1] = Merged(was, RangeOf(p))
            /\ p \in AllPrefixes /\ RangeOf(p) \in Ranges
            /\ RangeOf(p).from = p.addr /\ p.addr \in Nat /\ sorted[n].addr \in Nat
        BY <2>3, <2>9, <3>1
      <3>4. Upto(sorted, n + 1) = U \cup {p} /\ U \in SUBSET AllPrefixes
        <4>1. U \subseteq ps
          BY <2>1, <3>1, UptoFacts DEF last
        <4>2. Upto(sorted, n + 1) = Upto(sorted, (n + 1) - 1) \cup {p}
          BY <2>1, <3>1, UptoFacts DEF last
        <4> QED
          BY <3>1, <4>1, <4>2
      <3>5. Gathered(was, Span(RangesIn(U))) /\ was.last.from <= sorted[n].addr
        BY <3>2
      <3>6. was.last.from <= p.addr
        <4>1. sorted[n].addr <= p.addr
          BY <2>4, <3>1
        <4>2. was.last.from \in Nat
          BY <3>5 DEF Gathered, Ranges
        <4> QED
          BY <3>3, <3>5, <4>1, <4>2
      <3> HIDE DEF was, p, U
      <3>7. /\ Gathered(Merged(was, RangeOf(p)),
                        Span(RangesIn(U)) \cup (RangeOf(p).from..RangeOf(p).to))
            /\ Merged(was, RangeOf(p)).last.from <= RangeOf(p).from
        BY <3>3, <3>5, <3>6, MergedFacts
      <3>8. Span(RangesIn(U \cup {p})) =
              Span(RangesIn(U)) \cup (RangeOf(p).from..RangeOf(p).to)
        <4>1. RangesIn(U \cup {p}) = RangesIn(U) \cup {RangeOf(p)}
          BY <3>4, RangesInFacts
        <4> QED
          BY <4>1, SpanFacts
      <3>9. /\ Gathered(after[n + 1], Span(RangesIn(Upto(sorted, n + 1))))
            /\ after[n + 1].last.from <= p.addr
        BY <3>3, <3>4, <3>7, <3>8
      <3>10. Done(n + 1)
        BY <3>9 DEF p
      <3> QED
        BY <3>1, <3>10
    <2>12. last - 1 \in S
      <3>1. last - 1 \in Nat /\ last - 1 \in 0..(last - 1)
        BY <2>2
      <3> HIDE DEF S
      <3>2. \A i \in 0..(last - 1) : i \in S
        BY <2>10, <2>11, <3>1, AlongList
      <3> QED
        BY <3>1, <3>2
    <2>13. Upto(sorted, last) = ps
      BY <2>1, UptoFacts DEF last
    <2>14. Gathered(after[last], Span(RangesIn(ps)))
      <3>1. (last - 1) + 1 = last
        BY <2>2
      <3> QED
        BY <2>12, <2>13, <3>1
    <2> DEFINE R == after[last].done \cup {after[last].last}
    <2>15. Separate(R) /\ R \subseteq Ranges
      BY <2>14 DEF Gathered, Separate
    <2>16. Span(R) = Span(RangesIn(ps))
      BY <2>14 DEF Gathered
    <2> QED
      BY <1>1, <1>3, <2>15, <2>16
  <1> QED
    BY <1>2, <1>3

\* A prefix that lies in a range, and those of them no wider one of which does.
InRange(p, r) == r.from <= p.addr /\ lastAddr(p) <= r.to
Largest(f, r) ==
    {p \in AllPrefixes :
        /\ p.fam = f /\ InRange(p, r)
        /\ p.bits > 0 => ~InRange(Parent(p, p.bits - 1), r)}

\* The largest block that starts at an address and fits.
LEMMA HostBitsFacts ==
    ASSUME NEW from \in Nat, NEW to \in Nat, from <= to, to < Space
    PROVE  LET h == HostBits(from, to)
           IN  /\ h \in 0..Width /\ Pow[h] \in Nat \ {0}
               /\ Pow[h] <= to - from + 1
               /\ \E k \in Nat : from = k * Pow[h]
               /\ \A i \in 0..Width :
                     (\E k \in Nat : from = k * Pow[i]) /\ Pow[i] <= to - from + 1
                       => i <= h
  <1> DEFINE T == {h \in 0..Width : from % Pow[h] = 0 /\ Pow[h] <= to - from + 1}
  <1> DEFINE U == {Width - h : h \in T}
  <1>1. Width \in Nat
    BY PowFacts
  <1>2. \A h \in 0..Width : Pow[h] \in Nat \ {0}
    BY PowFacts
  <1>3. 0 \in T
    <2>1. Pow[0] = 1 /\ from % 1 = 0 /\ 1 <= to - from + 1
      BY PowFacts
    <2> QED
      BY <1>1, <2>1
  <1>4. T \subseteq 0..Width
    OBVIOUS
  <1>5. PICK m \in U : \A u \in U : m <= u
    <2>1. U \in SUBSET Nat /\ U # {}
      <3> HIDE DEF T
      <3> QED
        BY <1>1, <1>3, <1>4
    <2> HIDE DEF U
    <2> QED
      BY <2>1, LeastOf
  <1>6. PICK h \in T : m = Width - h
    OBVIOUS
  <1>7. \A i \in T : i <= h
    <2> SUFFICES ASSUME NEW i \in T PROVE i <= h
      OBVIOUS
    <2>1. Width - i \in U
      OBVIOUS
    <2> HIDE DEF U, T
    <2>2. Width - h <= Width - i
      BY <1>5, <1>6, <2>1
    <2>3. i \in Int /\ h \in Int
      BY <1>4
    <2> QED
      BY <1>1, <2>2, <2>3
  <1>8. HostBits(from, to) = Max(T)
    BY DEF HostBits
  <1>9. Max(T) = h
    <2> HIDE DEF T
    <2>1. \A x \in T : x \in Int
      BY <1>4
    <2>2. \A x \in T : (\A y \in T : x >= y) <=> x = h
      BY <1>7, <2>1
    <2> QED
      BY <2>2 DEF Max
  <1>10. \E k \in Nat : from = k * Pow[h]
    <2> DEFINE s == Pow[h]
    <2>1. s \in Nat \ {0} /\ from % s = 0
      BY <1>2
    <2> HIDE DEF s
    <2>2. PICK k \in Nat : from = k * s + (from % s)
      BY <2>1, Division
    <2>3. k * s \in Nat
      BY <2>1
    <2>4. from = k * s
      BY <2>1, <2>2, <2>3
    <2> QED
      BY <2>4 DEF s
  <1>11. ASSUME NEW i \in 0..Width, NEW k \in Nat, from = k * Pow[i],
                Pow[i] <= to - from + 1
         PROVE  i <= h
    <2> DEFINE s == Pow[i]
    <2>1. s \in Nat \ {0}
      BY <1>2
    <2>2. (k * s) % s = 0
      <3> HIDE DEF s
      <3> QED
        BY <2>1
    <2>3. i \in T
      BY <1>11, <2>2
    <2> HIDE DEF T
    <2> QED
      BY <1>7, <2>3
  <1>12. h \in 0..Width /\ Pow[h] <= to - from + 1
    OBVIOUS
  <1> HIDE DEF T
  <1>13. HostBits(from, to) = h
    BY <1>8, <1>9
  <1> QED
    BY <1>2, <1>10, <1>11, <1>12, <1>13

\* No prefix in the range starts before an address and ends at or after it.
Cut(f, r, from) ==
    \A p \in AllPrefixes :
        p.fam = f /\ InRange(p, r) => from <= p.addr \/ lastAddr(p) < from
\* The block that rangeToPrefixes takes at an address.
BlockAt(f, r, from) ==
    [fam |-> f, addr |-> from, bits |-> Width - HostBits(from, r.to)]

\* It is one of the largest, and after it nothing is cut either.
LEMMA BlockAtFacts ==
    ASSUME NEW f \in Families, NEW r \in Ranges, NEW from \in r.from..r.to,
           Cut(f, r, from)
    PROVE  LET b    == BlockAt(f, r, from)
               next == from + Pow[HostBits(from, r.to)]
           IN  /\ b \in Largest(f, r) /\ b.addr = from
               /\ next \in (from + 1)..(r.to + 1)
               /\ Cut(f, r, next)
               /\ \A p \in Largest(f, r) : p.addr \in from..(next - 1) => p = b
  <1> DEFINE h == HostBits(from, r.to)
  <1> DEFINE b == BlockAt(f, r, from)
  <1> DEFINE s == Pow[h]
  <1> DEFINE next == from + s
  <1>1. /\ r.from \in Nat /\ r.to \in Nat /\ from \in Nat
        /\ r.from <= from /\ from <= r.to /\ r.to < Space
        /\ Width \in Nat /\ Space \in Nat
    BY SpaceFacts, PowFacts DEF Ranges
  <1>2. /\ h \in 0..Width /\ s \in Nat \ {0} /\ s <= r.to - from + 1
        /\ \E k \in Nat : from = k * s
        /\ \A i \in 0..Width :
              (\E k \in Nat : from = k * Pow[i]) /\ Pow[i] <= r.to - from + 1
                => i <= h
    BY <1>1, HostBitsFacts
  <1>3. b = [fam |-> f, addr |-> from, bits |-> Width - h]
    BY DEF BlockAt
  <1> HIDE DEF h, b
  <1>4. Width - h \in 0..Width /\ Width - (Width - h) = h
    BY <1>1, <1>2
  <1>5. b \in AllPrefixes
    <2>1. PICK k \in Nat : from = k * s
      BY <1>2
    <2>2. k * Pow[Width - (Width - h)] < Space
      BY <1>1, <1>4, <2>1
    <2>3. [fam |-> f, addr |-> k * Pow[Width - (Width - h)], bits |-> Width - h]
             \in AllPrefixes
      BY <1>4, <2>2, MakePrefix
    <2> QED
      BY <1>3, <1>4, <2>1, <2>3
  <1>6. /\ b.fam = f /\ b.addr = from /\ b.bits = Width - h
        /\ Size(b) = s
    BY <1>3, <1>4 DEF Size
  <1>7. lastAddr(b) = next - 1 /\ lastAddr(b) = from + s - 1
    <2>1. lastAddr(b) = from + s - 1
      BY <1>5, <1>6, PrefixFacts
    <2> QED
      BY <1>1, <1>2, <2>1
  <1> HIDE DEF s
  <1>8. next \in Nat /\ next \in (from + 1)..(r.to + 1)
    BY <1>1, <1>2
  <1> HIDE DEF next
  <1>9. InRange(b, r)
    BY <1>1, <1>2, <1>6, <1>7 DEF InRange
  \* No wider prefix in the range has the address from.
  <1>10. ASSUME NEW p \in AllPrefixes, p.fam = f, InRange(p, r),
                p.addr <= from, from <= lastAddr(p)
         PROVE  b.bits <= p.bits
    <2>1. /\ p.addr \in Nat /\ lastAddr(p) \in Nat /\ p.bits \in 0..Width
          /\ Width - p.bits \in 0..Width
          /\ Size(p) = Pow[Width - p.bits] /\ Size(p) \in Nat
          /\ lastAddr(p) = p.addr + Size(p) - 1
          /\ \E k \in Nat : p.addr = k * Size(p)
      BY PrefixFacts
    <2>2. from <= p.addr \/ lastAddr(p) < from
      BY <1>10 DEF Cut
    <2>3. p.addr = from
      BY <1>1, <1>10, <2>1, <2>2
    <2>4. Size(p) <= r.to - from + 1
      BY <1>1, <1>10, <2>1, <2>3 DEF InRange
    <2>5. Width - p.bits <= h
      BY <1>2, <2>1, <2>3, <2>4
    <2> QED
      BY <1>1, <1>2, <1>6, <2>1, <2>5
  <1>11. b \in Largest(f, r)
    <2> SUFFICES ASSUME b.bits > 0, InRange(Parent(b, b.bits - 1), r) PROVE FALSE
      BY <1>5, <1>6, <1>9 DEF Largest
    <2> DEFINE up == Parent(b, b.bits - 1)
    <2>1. b.bits - 1 \in 0..b.bits /\ b.bits \in Int
      BY <1>1, <1>2, <1>6
    <2>2. up \in AllPrefixes /\ up.fam = f /\ up.bits = b.bits - 1 /\ Within(b, up)
      BY <1>5, <1>6, <2>1, ParentFacts
    <2>3. InRange(up, r)
      OBVIOUS
    <2> HIDE DEF up
    <2>4. up.addr <= from /\ from <= lastAddr(up)
      BY <1>1, <1>2, <1>6, <1>7, <2>2, PrefixFacts DEF Within
    <2>5. b.bits <= up.bits
      BY <1>10, <2>2, <2>3, <2>4
    <2> QED
      BY <2>1, <2>2, <2>5
  <1>12. Cut(f, r, next)
    <2> SUFFICES ASSUME NEW p \in AllPrefixes, p.fam = f, InRange(p, r),
                        p.addr < next, next <= lastAddr(p)
                 PROVE  FALSE
      <3>1. \A p \in AllPrefixes : p.addr \in Nat /\ lastAddr(p) \in Nat
        BY PrefixFacts
      <3> QED
        BY <1>8, <3>1 DEF Cut
    <2>1. p.addr \in Nat /\ lastAddr(p) \in Nat /\ p.bits \in Nat /\ b.bits \in Nat
      BY <1>5, PrefixFacts
    <2>2. from <= p.addr
      <3>1. from <= p.addr \/ lastAddr(p) < from
        BY DEF Cut
      <3> QED
        BY <1>1, <1>8, <2>1, <3>1
    <2>3. ~Apart(p, b)
      BY <1>1, <1>6, <1>7, <1>8, <2>1, <2>2 DEF Apart
    <2>4. CASE b.bits <= p.bits
      <3>1. Within(p, b)
        BY <1>5, <2>3, <2>4, HoldsFacts
      <3> QED
        BY <1>7, <1>8, <2>1, <3>1 DEF Within
    <2>5. CASE ~(b.bits <= p.bits)
      <3>1. Within(b, p)
        BY <1>5, <2>1, <2>3, <2>5, HoldsFacts
      <3>2. p.addr <= from /\ from <= lastAddr(p)
        BY <1>1, <1>6, <1>8, <2>1, <3>1 DEF Within
      <3> QED
        BY <1>10, <2>5, <3>2
    <2> QED
      BY <2>4, <2>5
  <1>13. ASSUME NEW p \in Largest(f, r), p.addr \in from..(next - 1)
         PROVE  p = b
    <2>1. /\ p \in AllPrefixes /\ p.fam = f /\ InRange(p, r)
          /\ p.bits > 0 => ~InRange(Parent(p, p.bits - 1), r)
      BY DEF Largest
    <2>2. p.addr \in Nat /\ lastAddr(p) \in Nat /\ p.bits \in Nat /\ b.bits \in Nat
          /\ p.addr <= lastAddr(p)
      BY <1>5, <2>1, PrefixFacts
    <2>3. ~Apart(p, b)
      BY <1>1, <1>6, <1>7, <1>8, <1>13, <2>1, <2>2 DEF Apart
    <2>4. b.bits <= p.bits
      <3> SUFFICES ASSUME p.bits < b.bits PROVE FALSE
        BY <2>2
      <3>1. Within(b, p)
        BY <1>5, <2>1, <2>2, <2>3, HoldsFacts
      <3>2. p.addr <= from /\ from <= lastAddr(p)
        <4>1. p.addr <= from /\ lastAddr(b) <= lastAddr(p)
          BY <1>6, <3>1 DEF Within
        <4> QED
          BY <1>1, <1>2, <1>7, <2>2, <4>1
      <3>3. b.bits <= p.bits
        BY <1>10, <2>1, <3>2
      <3> QED
        BY <2>2, <3>3
    <2>5. CASE p.bits = b.bits
      BY <1>5, <2>1, <2>3, <2>5, SameLength
    <2>6. CASE b.bits < p.bits
      <3> DEFINE up == Parent(p, p.bits - 1)
      <3>1. p.bits - 1 \in 0..p.bits /\ p.bits > 0 /\ b.bits <= p.bits - 1
        BY <2>2, <2>6
      <3>2. up \in AllPrefixes /\ up.bits = p.bits - 1 /\ Within(p, up)
        BY <2>1, <3>1, ParentFacts
      <3>3. ~InRange(up, r)
        BY <2>1, <3>1
      <3> HIDE DEF up
      <3>4. Within(p, b)
        BY <1>5, <2>1, <2>3, <2>4, HoldsFacts
      <3>5. ~Apart(b, up)
        BY <1>5, <2>1, <2>2, <3>2, <3>4, PrefixFacts DEF Within, Apart
      <3>6. Within(up, b)
        BY <1>5, <3>1, <3>2, <3>5, HoldsFacts
      <3>7. InRange(up, r)
        <4>1. up.addr \in Nat /\ lastAddr(up) \in Nat /\ lastAddr(b) \in Nat
          BY <1>5, <3>2, PrefixFacts
        <4> QED
          BY <1>1, <1>6, <1>9, <3>6, <4>1 DEF Within, InRange
      <3> QED
        BY <3>3, <3>7
    <2> QED
      BY <2>2, <2>4, <2>5, <2>6
  <1> QED
    BY <1>6, <1>8, <1>11, <1>12, <1>13 DEF b, next, s, h

\* rangeToPrefixes gives the largest prefixes of a range.
LEMMA BlocksFacts ==
    ASSUME NEW f \in Families, NEW r \in Ranges
    PROVE  Blocks(f, r) = Largest(f, r)
  <1> DEFINE end == r.to + 1
  <1> DEFINE Next(from) == from + Pow[HostBits(from, r.to)]
  <1> DEFINE Rest(t, from) ==
        IF from > r.to THEN {} ELSE {BlockAt(f, r, from)} \cup t[Next(from)]
  <1> DEFINE rest[from \in r.from..end] == Rest(rest, from)
  <1>1. /\ r.from \in Nat /\ r.to \in Nat /\ r.from <= r.to /\ r.to < Space
        /\ end \in Nat /\ end = r.to + 1 /\ end - r.from \in Nat
    BY SpaceFacts DEF Ranges
  <1>2. Blocks(f, r) = rest[r.from]
    BY DEF Blocks, BlockAt
  <1>3. ASSUME NEW from \in r.from..r.to PROVE Next(from) \in (from + 1)..end
    <2>1. from \in Nat /\ from <= r.to
      BY <1>1
    <2>2. Pow[HostBits(from, r.to)] \in Nat \ {0}
          /\ Pow[HostBits(from, r.to)] <= r.to - from + 1
      BY <1>1, <2>1, HostBitsFacts
    <2> DEFINE s == Pow[HostBits(from, r.to)]
    <2> HIDE DEF s
    <2> QED
      BY <1>1, <2>1, <2>2 DEF s
  <1> HIDE DEF Next, end
  \* A table of what is left from an address on, filled from the end.
  <1> DEFINE V == SUBSET {BlockAt(f, r, from) : from \in r.from..r.to}
  <1> DEFINE Filled(t, n) ==
        /\ t \in [r.from..end -> V]
        /\ \A from \in (end - n)..end : t[from] = Rest(t, from)
  <1> DEFINE S == {n \in 0..(end - r.from) : \E t : Filled(t, n)}
  <1>4. 0 \in S
    <2> DEFINE t == [from \in r.from..end |-> {}]
    <2>1. t \in [r.from..end -> V]
      OBVIOUS
    <2>2. \A from \in (end - 0)..end : from = end /\ from > r.to /\ from \in r.from..end
      BY <1>1
    <2>3. Filled(t, 0)
      BY <2>1, <2>2
    <2> HIDE DEF Filled, t
    <2> QED
      BY <1>1, <2>3
  <1>5. ASSUME NEW n \in 1..(end - r.from), n - 1 \in S PROVE n \in S
    <2>1. PICK t : Filled(t, n - 1)
      BY <1>5
    <2> DEFINE a == end - n
    <2> DEFINE new == {BlockAt(f, r, a)} \cup t[Next(a)]
    <2> DEFINE u == [t EXCEPT ![a] = new]
    <2>2. /\ a \in r.from..r.to /\ a \in r.from..end /\ a \in Nat
          /\ n \in 0..(end - r.from) /\ end - (n - 1) = a + 1
      BY <1>1
    <2> HIDE DEF a
    <2>3. Next(a) \in (a + 1)..end /\ Next(a) \in r.from..end /\ Next(a) # a
      <3>1. Next(a) \in (a + 1)..end
        BY <1>3, <2>2
      <3> QED
        BY <1>1, <2>2, <3>1
    <2>4. t \in [r.from..end -> V]
          /\ \A from \in (a + 1)..end : t[from] = Rest(t, from)
      BY <2>1, <2>2
    <2>5. new \in V
      BY <2>2, <2>3, <2>4
    <2>6. u \in [r.from..end -> V]
      <3> HIDE DEF new, V
      <3> QED
        BY <2>4, <2>5
    <2>7. u[a] = Rest(u, a)
      <3>1. u[a] = new /\ u[Next(a)] = t[Next(a)]
        <4> HIDE DEF new, V
        <4> QED
          BY <2>2, <2>3, <2>4
      <3>2. ~(a > r.to)
        BY <1>1, <2>2
      <3> HIDE DEF u
      <3> QED
        BY <3>1, <3>2
    <2>8. ASSUME NEW from \in (a + 1)..end PROVE u[from] = Rest(u, from)
      <3>1. from # a /\ from \in r.from..end /\ from \in Nat
        BY <1>1, <2>2
      <3>2. u[from] = t[from]
        <4> HIDE DEF new, V
        <4> QED
          BY <2>4, <3>1
      <3>3. CASE from > r.to
        <4> HIDE DEF u
        <4> QED
          BY <2>4, <3>2, <3>3
      <3>4. CASE ~(from > r.to)
        <4>1. from \in r.from..r.to
          BY <1>1, <3>1, <3>4
        <4>2. Next(from) \in (from + 1)..end
          BY <1>3, <4>1
        <4>3. Next(from) \in r.from..end /\ Next(from) # a
          BY <1>1, <2>2, <3>1, <4>2
        <4>4. u[Next(from)] = t[Next(from)]
          <5> HIDE DEF new, V
          <5> QED
            BY <2>4, <4>3
        <4> HIDE DEF u
        <4> QED
          BY <2>4, <3>2, <3>4, <4>4
      <3> QED
        BY <3>3, <3>4
    <2>9. \A from \in a..end : from = a \/ from \in (a + 1)..end
      BY <1>1, <2>2
    <2> HIDE DEF u, Rest, V
    <2>10. Filled(u, n)
      BY <2>6, <2>7, <2>8, <2>9 DEF a
    <2> HIDE DEF Filled
    <2> QED
      BY <2>2, <2>10
  <1>6. PICK t : Filled(t, end - r.from)
    <2>1. end - r.from \in 0..(end - r.from)
      BY <1>1
    <2> HIDE DEF S
    <2>2. \A n \in 0..(end - r.from) : n \in S
      BY <1>1, <1>4, <1>5, AlongList
    <2>3. end - r.from \in S
      BY <2>1, <2>2
    <2> HIDE DEF Filled
    <2> QED
      BY <2>3 DEF S
  <1>7. t = [from \in r.from..end |-> Rest(t, from)]
    <2>1. end - (end - r.from) = r.from
      BY <1>1
    <2> HIDE DEF Rest, V
    <2> QED
      BY <1>6, <2>1
  <1>8. rest = [from \in r.from..end |-> Rest(rest, from)]
    <2> HIDE DEF Rest
    <2> QED
      BY <1>7
  <1> HIDE DEF rest
  <1>9. \A from \in r.from..end : rest[from] = Rest(rest, from)
    <2> HIDE DEF Rest
    <2> QED
      BY <1>8
  \* Where nothing is cut the rest is the largest prefixes from there on.
  <1> DEFINE From(from) == {p \in Largest(f, r) : from <= p.addr}
  <1> DEFINE G == {n \in 0..(end - r.from) :
                     \A from \in (end - n)..end :
                        Cut(f, r, from) => rest[from] = From(from)}
  <1>10. \A p \in Largest(f, r) :
            p.addr \in Nat /\ p.addr <= r.to /\ r.from <= p.addr
    <2>1. \A p \in Largest(f, r) : p \in AllPrefixes /\ InRange(p, r)
      BY DEF Largest
    <2>2. \A p \in AllPrefixes :
             p.addr \in Nat /\ lastAddr(p) \in Nat /\ p.addr <= lastAddr(p)
      BY PrefixFacts
    <2> QED
      BY <1>1, <2>1, <2>2 DEF InRange
  <1>11. 0 \in G
    <2>1. \A from \in (end - 0)..end :
             from = end /\ from > r.to /\ from \in r.from..end
      BY <1>1
    <2>2. From(end) = {}
      BY <1>1, <1>10
    <2>3. rest[end] = {}
      <3>1. end \in r.from..end /\ end > r.to
        BY <1>1
      <3> QED
        BY <1>9, <3>1
    <2> HIDE DEF From
    <2>4. \A from \in (end - 0)..end : rest[from] = From(from)
      BY <2>1, <2>2, <2>3
    <2>5. 0 \in 0..(end - r.from)
      BY <1>1
    <2> QED
      BY <2>4, <2>5
  <1>12. ASSUME NEW n \in 1..(end - r.from), n - 1 \in G PROVE n \in G
    <2> DEFINE a == end - n
    <2>1. /\ a \in r.from..r.to /\ a \in r.from..end /\ a \in Nat
          /\ n \in 0..(end - r.from) /\ end - (n - 1) = a + 1
      BY <1>1
    <2>2. \A from \in (a + 1)..end : Cut(f, r, from) => rest[from] = From(from)
      BY <1>12, <2>1
    <2> HIDE DEF a
    <2>3. ASSUME Cut(f, r, a) PROVE rest[a] = From(a)
      <3> DEFINE b == BlockAt(f, r, a)
      <3> DEFINE next == Next(a)
      <3>1. /\ b \in Largest(f, r) /\ b.addr = a
            /\ next \in (a + 1)..end /\ Cut(f, r, next)
            /\ \A p \in Largest(f, r) : p.addr \in a..(next - 1) => p = b
        BY <2>1, <2>3, BlockAtFacts DEF Next, end
      <3>2. rest[a] = {b} \cup rest[next]
        <4>1. ~(a > r.to)
          BY <1>1, <2>1
        <4> QED
          BY <1>9, <2>1, <4>1
      <3>3. rest[next] = From(next)
        BY <2>2, <3>1
      <3>4. next \in Nat /\ a < next
        BY <1>1, <2>1, <3>1
      <3> HIDE DEF next, b
      <3>5. \A p \in Largest(f, r) :
               a <= p.addr <=> next <= p.addr \/ p.addr \in a..(next - 1)
        BY <1>10, <2>1, <3>4
      <3>6. From(a) = {b} \cup From(next)
        BY <2>1, <3>1, <3>4, <3>5
      <3> QED
        BY <3>2, <3>3, <3>6
    <2>4. \A from \in a..end : from = a \/ from \in (a + 1)..end
      BY <1>1, <2>1
    <2> HIDE DEF From
    <2>5. \A from \in (end - n)..end : Cut(f, r, from) => rest[from] = From(from)
      BY <2>2, <2>3, <2>4 DEF a
    <2> QED
      BY <2>1, <2>5
  <1>13. rest[r.from] = From(r.from)
    <2>1. end - r.from \in 0..(end - r.from) /\ r.from \in (end - (end - r.from))..end
      BY <1>1
    <2>2. Cut(f, r, r.from)
      BY DEF Cut, InRange
    <2>3. \A n \in 0..(end - r.from) : n \in G
      <3> HIDE DEF G
      <3> QED
        BY <1>1, <1>11, <1>12, AlongList
    <2> HIDE DEF From
    <2> QED
      BY <2>1, <2>2, <2>3
  <1>14. From(r.from) = Largest(f, r)
    BY <1>10
  <1> QED
    BY <1>2, <1>13, <1>14

\* The addresses of a family of prefixes are those of ranges.
LEMMA FamilyFacts ==
    ASSUME NEW f \in Families, NEW ps \in SUBSET AllPrefixes,
           NEW p \in AllPrefixes, p.fam = f
    PROVE  LET rs == RangesOf({q \in ps : q.fam = f})
           IN  Block(p) \subseteq Addresses(ps) <=> \E r \in rs : InRange(p, r)
  <1> DEFINE own == {q \in ps : q.fam = f}
  <1> DEFINE rs == RangesOf(own)
  <1>1. /\ rs \subseteq Ranges /\ Separate(rs)
        /\ Span(rs) = Span(RangesIn(own))
    <2>1. own \in SUBSET AllPrefixes /\ \A q \in own : q.fam = f
      OBVIOUS
    <2> HIDE DEF own
    <2> QED
      BY <2>1, RangesOfFacts
  <1> HIDE DEF rs
  <1>2. \A a : a \in Span(rs) <=> <<f, a>> \in Addresses(ps)
    <2>1. ASSUME NEW a
          PROVE  a \in Span(RangesIn(own)) <=>
                    \E q \in own : a \in q.addr..lastAddr(q)
      <3> HIDE DEF own
      <3>1. a \in Span(RangesIn(own)) <=>
               \E r \in RangesIn(own) : a \in r.from..r.to
        BY SpanFacts
      <3>2. /\ \A q \in own : RangeOf(q) \in RangesIn(own)
            /\ \A r \in RangesIn(own) : \E q \in own : r = RangeOf(q)
        BY DEF RangesIn
      <3>3. \A q : RangeOf(q).from = q.addr /\ RangeOf(q).to = lastAddr(q)
        BY DEF RangeOf
      <3> QED
        BY <3>1, <3>2, <3>3
    <2>2. ASSUME NEW a
          PROVE  <<f, a>> \in Addresses(ps) <=>
                    \E q \in own : a \in q.addr..lastAddr(q)
      <3>1. <<f, a>> \in Addresses(ps) <=> \E q \in ps : <<f, a>> \in Block(q)
        BY AddressesOf
      <3>2. \A q : <<f, a>> \in Block(q) <=> q.fam = f /\ a \in q.addr..lastAddr(q)
        BY DEF Block
      <3> QED
        BY <3>1, <3>2
    <2> HIDE DEF own
    <2> QED
      BY <1>1, <2>1, <2>2
  <1>3. /\ p.addr \in Nat /\ lastAddr(p) \in Nat /\ p.addr <= lastAddr(p)
        /\ \A r \in rs : r.from \in Nat /\ r.to \in Nat /\ r.from <= r.to
    BY <1>1, PrefixFacts DEF Ranges
  <1>4. Block(p) \subseteq Addresses(ps) <=>
           \A a \in p.addr..lastAddr(p) : a \in Span(rs)
    BY <1>2 DEF Block
  <1>5. ASSUME NEW r \in rs, InRange(p, r), NEW a \in p.addr..lastAddr(p)
        PROVE  a \in Span(rs)
    <2>1. a \in r.from..r.to
      BY <1>3, <1>5 DEF InRange
    <2> QED
      BY <2>1, SpanFacts
  <1>6. ASSUME \A a \in p.addr..lastAddr(p) : a \in Span(rs)
        PROVE  \E r \in rs : InRange(p, r)
    <2>1. p.addr \in Span(rs)
      BY <1>3, <1>6
    <2>2. PICK r \in rs : p.addr \in r.from..r.to
      BY <2>1, SpanFacts
    <2>3. SUFFICES ASSUME r.to < lastAddr(p) PROVE FALSE
      BY <1>3, <2>2 DEF InRange
    <2>4. r.to + 1 \in p.addr..lastAddr(p)
      BY <1>3, <2>2, <2>3
    <2>5. r.to + 1 \in Span(rs)
      BY <1>6, <2>4
    <2>6. PICK s \in rs : r.to + 1 \in s.from..s.to
      BY <2>5, SpanFacts
    <2>7. r # s
      BY <1>3, <2>6
    <2>8. r.to + 1 < s.from \/ s.to + 1 < r.from
      BY <1>1, <2>7 DEF Separate
    <2> QED
      BY <1>3, <2>6, <2>8
  <1>7. Block(p) \subseteq Addresses(ps) <=> \E r \in rs : InRange(p, r)
    BY <1>4, <1>5, <1>6
  <1> QED
    BY <1>7 DEF rs

\* Aggregation gives the largest blocks that lie within the addresses.
LEMMA AggregateFacts ==
    ASSUME NEW ps \in SUBSET AllPrefixes
    PROVE  Aggregate(ps) =
              {p \in AllPrefixes :
                  /\ Block(p) \subseteq Addresses(ps)
                  /\ p.bits > 0 =>
                       ~(Block(Parent(p, p.bits - 1)) \subseteq Addresses(ps))}
  <1> DEFINE R(f) == RangesOf({q \in ps : q.fam = f})
  <1>1. ASSUME NEW f \in Families
        PROVE  R(f) \subseteq Ranges /\ Separate(R(f))
    BY RangesOfFacts
  <1>2. ASSUME NEW p \in AllPrefixes
        PROVE  Block(p) \subseteq Addresses(ps) <=> \E r \in R(p.fam) : InRange(p, r)
    <2>1. p.fam \in Families
      BY PrefixFacts
    <2> QED
      BY <2>1, FamilyFacts
  <1>3. Aggregate(ps) = UNION {AggregatedFamily(f, ps) : f \in Families}
    BY DEF Aggregate
  <1>4. ASSUME NEW f \in Families
        PROVE  AggregatedFamily(f, ps) = UNION {Largest(f, r) : r \in R(f)}
    <2>1. AggregatedFamily(f, ps) = UNION {Blocks(f, r) : r \in R(f)}
      BY DEF AggregatedFamily
    <2> HIDE DEF R
    <2>2. \A r \in R(f) : Blocks(f, r) = Largest(f, r)
      BY <1>1, BlocksFacts
    <2> QED
      BY <2>1, <2>2
  <1> HIDE DEF R
  <1>5. \A p : p \in Aggregate(ps) <=>
           \E f \in Families : \E r \in R(f) : p \in Largest(f, r)
    BY <1>3, <1>4
  <1>6. \A f, r : \A p \in Largest(f, r) :
           /\ p \in AllPrefixes /\ p.fam = f /\ InRange(p, r)
           /\ p.bits > 0 => ~InRange(Parent(p, p.bits - 1), r)
    BY DEF Largest
  <1>7. ASSUME NEW p \in AllPrefixes, p.bits > 0
        PROVE  LET up == Parent(p, p.bits - 1)
               IN  up \in AllPrefixes /\ up.fam = p.fam /\ Within(p, up)
    <2>1. p.bits - 1 \in 0..p.bits
      BY <1>7, PrefixFacts
    <2> QED
      BY <2>1, ParentFacts
  \* What holds p lies in the same range.
  <1>8. ASSUME NEW p \in AllPrefixes, NEW up \in AllPrefixes,
               up.fam = p.fam, Within(p, up),
               NEW r \in R(p.fam), InRange(p, r)
        PROVE  Block(up) \subseteq Addresses(ps) <=> InRange(up, r)
    <2>1. Block(up) \subseteq Addresses(ps) <=> \E s \in R(p.fam) : InRange(up, s)
      BY <1>2, <1>8
    <2>2. ASSUME NEW s \in R(p.fam), InRange(up, s) PROVE s = r
      <3>1. /\ s.from <= p.addr /\ p.addr <= s.to /\ r.from <= p.addr
            /\ p.addr <= r.to /\ s.from \in Nat /\ s.to \in Nat
            /\ r.from \in Nat /\ r.to \in Nat /\ p.addr \in Nat
        <4>1. /\ up.addr <= p.addr /\ lastAddr(p) <= lastAddr(up)
              /\ p.addr <= lastAddr(p) /\ p.addr \in Nat /\ lastAddr(p) \in Nat
              /\ up.addr \in Nat /\ lastAddr(up) \in Nat
          BY <1>8, PrefixFacts DEF Within
        <4>2. p.fam \in Families
          BY PrefixFacts
        <4>3. r \in Ranges /\ s \in Ranges
          BY <1>1, <4>2
        <4>4. s.from \in Nat /\ s.to \in Nat /\ r.from \in Nat /\ r.to \in Nat
          BY <4>3 DEF Ranges
        <4> QED
          BY <1>8, <2>2, <4>1, <4>4 DEF InRange
      <3>2. p.fam \in Families
        BY PrefixFacts
      <3>3. s # r => r.to + 1 < s.from \/ s.to + 1 < r.from
        BY <1>1, <3>2 DEF Separate
      <3> QED
        BY <3>1, <3>3
    <2> QED
      BY <2>1, <2>2
  <1>9. ASSUME NEW p \in Aggregate(ps)
        PROVE  /\ p \in AllPrefixes /\ Block(p) \subseteq Addresses(ps)
               /\ p.bits > 0 =>
                    ~(Block(Parent(p, p.bits - 1)) \subseteq Addresses(ps))
    <2>1. PICK f \in Families : \E r \in R(f) : p \in Largest(f, r)
      BY <1>5
    <2>2. PICK r \in R(f) : p \in Largest(f, r)
      BY <2>1
    <2>3. /\ p \in AllPrefixes /\ p.fam = f /\ InRange(p, r)
          /\ p.bits > 0 => ~InRange(Parent(p, p.bits - 1), r)
      BY <1>6, <2>2
    <2>4. Block(p) \subseteq Addresses(ps)
      BY <1>2, <2>2, <2>3
    <2>5. ASSUME p.bits > 0
          PROVE  ~(Block(Parent(p, p.bits - 1)) \subseteq Addresses(ps))
      <3> DEFINE up == Parent(p, p.bits - 1)
      <3>1. up \in AllPrefixes /\ up.fam = p.fam /\ Within(p, up)
        BY <1>7, <2>3, <2>5
      <3>2. ~InRange(up, r)
        BY <2>3, <2>5
      <3> HIDE DEF up
      <3>3. ~(Block(up) \subseteq Addresses(ps))
        BY <1>8, <2>2, <2>3, <3>1, <3>2
      <3> QED
        BY <3>3 DEF up
    <2> QED
      BY <2>3, <2>4, <2>5
  <1>10. ASSUME NEW p \in AllPrefixes, Block(p) \subseteq Addresses(ps),
                p.bits > 0 =>
                    ~(Block(Parent(p, p.bits - 1)) \subseteq Addresses(ps))
         PROVE  p \in Aggregate(ps)
    <2>1. PICK r \in R(p.fam) : InRange(p, r)
      BY <1>2, <1>10
    <2>2. ASSUME p.bits > 0 PROVE ~InRange(Parent(p, p.bits - 1), r)
      <3> DEFINE up == Parent(p, p.bits - 1)
      <3>1. up \in AllPrefixes /\ up.fam = p.fam /\ Within(p, up)
        BY <1>7, <2>2
      <3>2. ~(Block(up) \subseteq Addresses(ps))
        BY <1>10, <2>2
      <3> HIDE DEF up
      <3>3. ~InRange(up, r)
        BY <1>8, <2>1, <3>1, <3>2
      <3> QED
        BY <3>3 DEF up
    <2>3. p \in Largest(p.fam, r)
      BY <2>1, <2>2 DEF Largest
    <2>4. p.fam \in Families
      BY PrefixFacts
    <2> QED
      BY <1>5, <2>1, <2>3, <2>4
  <1> QED
    BY <1>9, <1>10

\* The list an administrator is told to enter (prefixfilter/aggregate.go) is the
\* one of the largest blocks with the addresses of the one he entered, for any
\* networks: no two of its prefixes could be one, and none is missing.
THEOREM AdviceStaysMinimal == FilterSpec => []AdviceIsMinimal
  <1>1. FilterInv => AdviceIsMinimal
    <2> SUFFICES ASSUME FilterInv, advice # NoAdvice PROVE AdviceIsMinimal
      BY DEF AdviceIsMinimal
    <2>1. PICK given \in NetworkLists :
             advice = [of |-> given, is |-> Aggregate(given)]
      BY DEF FilterInv, AdviceInv
    <2>2. given \in SUBSET AllPrefixes
      BY FilterData
    <2>3. advice.of = given /\ advice.is = Aggregate(given)
      BY <2>1
    <2>4. \A p : Addresses({p}) = Block(p)
      BY AddressesFacts
    <2>5. {p \in AllPrefixes :
             /\ Block(p) \subseteq Addresses(given)
             /\ p.bits > 0 =>
                  ~(Block(Parent(p, p.bits - 1)) \subseteq Addresses(given))} =
          {p \in AllPrefixes :
             /\ Addresses({p}) \subseteq Addresses(given)
             /\ p.bits > 0 =>
                  ~(Addresses({Parent(p, p.bits - 1)}) \subseteq Addresses(given))}
      BY <2>4
    <2> QED
      BY <2>2, <2>3, <2>5, AggregateFacts DEF AdviceIsMinimal
  <1> QED
    BY <1>1, FilterInvariant, PTL
==============================================================================
