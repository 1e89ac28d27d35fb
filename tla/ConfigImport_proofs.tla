------------------------ MODULE ConfigImport_proofs ------------------------
(***************************************************************************)
(* Proofs about ConfigImport, for any users, modes, numbers and snapshots, *)
(* and every bound.                                                        *)
(***************************************************************************)
EXTENDS ConfigImport, FiniteSetTheorems, WellFoundedInduction, TLAPS

----------------------------------------------------------------------------
(* Induction along a list *)

\* A nonempty set of numbers has a least one.
LEMMA LeastOf ==
    ASSUME NEW T \in SUBSET Nat, T # {}
    PROVE  \E m \in T : \A t \in T : m <= t
<1> DEFINE Lower(t) == {u \in T : u < t}
<1> DEFINE Sets == {Lower(t) : t \in T}
<1>0. \A t \in T : t \in Nat /\ t \in Int
    OBVIOUS
<1>1. Sets \subseteq FiniteSubsetsOf(T) /\ Sets # {}
  <2>1. ASSUME NEW t \in T PROVE Lower(t) \in FiniteSubsetsOf(T)
    <3>1. IsFiniteSet(0..t)
      BY <1>0, FS_Interval
    <3>2. ASSUME NEW u \in Lower(t) PROVE u \in 0..t
      <4>1. u \in Int /\ t \in Int /\ 0 <= u /\ u < t
        BY <1>0
      <4>. QED
        BY <4>1
    <3>3. IsFiniteSet(Lower(t))
      BY <3>1, <3>2, FS_Subset
    <3>. QED
      BY <3>3 DEF FiniteSubsetsOf
  <2> HIDE DEF Lower
  <2>. QED
    BY <2>1
<1>2. PICK X \in Sets : \A Y \in Sets : ~(<<Y, X>> \in StrictSubsetOrdering(T))
  <2> HIDE DEF Sets
  <2>. QED
    BY <1>1, FS_StrictSubsetOrderingWellFounded, WFMin
<1>3. PICK m \in T : X = Lower(m)
    OBVIOUS
<1>4. ASSUME NEW u \in T, ~(m <= u) PROVE FALSE
  <2>1. /\ u < m /\ ~(u < u)
        /\ \A w \in T : w < u => w < m
    BY <1>0, <1>4
  <2>2. Lower(u) \subseteq Lower(m) /\ u \in Lower(m) /\ u \notin Lower(u)
    BY <2>1
  <2>3. <<Lower(u), X>> \in StrictSubsetOrdering(T)
    BY <1>3, <2>2 DEF StrictSubsetOrdering
  <2>. QED
    BY <1>2, <2>3
<1>. QED
    BY <1>4

\* What holds before the first step and after each holds up to the last.
LEMMA AlongList ==
    ASSUME NEW L \in Nat, NEW S, 0 \in S,
           \A i \in 1..L : i - 1 \in S => i \in S
    PROVE  \A i \in 0..L : i \in S
<1> DEFINE T == (0..L) \ S
<1>1. SUFFICES ASSUME T # {} PROVE FALSE
    OBVIOUS
<1>2. PICK m \in T : \A t \in T : m <= t
  <2>1. T \in SUBSET Nat
    OBVIOUS
  <2> HIDE DEF T
  <2>. QED
    BY <1>1, <2>1, LeastOf
<1>3. m \in 1..L /\ m - 1 \in 0..L /\ ~(m <= m - 1)
    OBVIOUS
<1>4. m - 1 \in S
    BY <1>2, <1>3
<1>. QED
    BY <1>3, <1>4

----------------------------------------------------------------------------
(* Placeholders *)

Drafts == [ok : BOOLEAN, users : [Names -> Rows \cup {NoUser}],
           taken : SUBSET Nat]

\* The list of names has every name once.
LEMMA NameFacts ==
    /\ Len(NameList) \in Nat /\ DOMAIN NameList = 1..Len(NameList)
    /\ \A n \in Names : \E i \in 1..Len(NameList) : NameList[i] = n
    /\ \A i \in 1..Len(NameList) : NameList[i] \in Names
    /\ \A i, j \in 1..Len(NameList) : NameList[i] = NameList[j] => i = j
    /\ IsFiniteSet(Names)
<1>1. NameList \in Seq(Names) /\ IsInjective(NameList)
    BY ImportAssumption
<1>2. \A n \in Names : \E i \in 1..Len(NameList) : NameList[i] = n
    BY <1>1 DEF Names, Range
<1>3. IsFiniteSet(Names)
    BY <1>1, <1>2 DEF IsFiniteSet
<1>. QED
    BY <1>1, <1>2, <1>3 DEF IsInjective

LEMMA SnapshotFacts ==
    ASSUME NEW s \in Snapshots
    PROVE  /\ DOMAIN s.users \subseteq Names
           /\ \A n \in DOMAIN s.users : s.users[n] \in SentRows
           /\ DOMAIN s.modes \subseteq ModeNames
           /\ \A m \in DOMAIN s.modes :
                 /\ s.modes[m].on \in BOOLEAN
                 /\ s.modes[m].feeds \subseteq FeedNames
                 /\ DOMAIN s.modes[m].num \subseteq Pairs
                 /\ \A p \in DOMAIN s.modes[m].num :
                       s.modes[m].num[p] \in Nat \ {0}
BY ImportAssumption DEF IsSnapshot

\* The values of a function on a finite set are finitely many.
LEMMA FiniteValues ==
    ASSUME NEW S, IsFiniteSet(S), NEW f, DOMAIN f = S, f = [x \in S |-> f[x]]
    PROVE  IsFiniteSet({f[x] : x \in S})
<1> DEFINE T == {f[x] : x \in S}
<1>1. f \in Surjection(S, T)
    BY DEF Surjection
<1>. QED
    BY <1>1, FS_Surjection

\* The numbers that no placeholder may have are finitely many.
LEMMA TakenType ==
    ASSUME NEW s \in Snapshots, users \in [Names -> Rows \cup {NoUser}]
    PROVE  StagingTaken(s) \subseteq Nat /\ IsFiniteSet(StagingTaken(s))
<1> DEFINE A == {o \in Present(users) : users[o].peer[1] = TestNet}
<1> DEFINE B == {o \in DOMAIN s.users : s.users[o].peer[1] = TestNet}
<1> DEFINE fa == [n \in A |-> users[n].peer[2]]
<1> DEFINE fb == [n \in B |-> s.users[n].peer[2]]
<1>1. IsFiniteSet(A) /\ IsFiniteSet(B)
  <2>1. A \in SUBSET Names /\ B \in SUBSET Names
    BY SnapshotFacts DEF Present
  <2> HIDE DEF A, B
  <2>. QED
    BY <2>1, NameFacts, FS_Subset
<1>2. StagingTaken(s) = {fa[n] : n \in A} \cup {fb[n] : n \in B}
    BY DEF StagingTaken, TakenInTable
<1>3. IsFiniteSet({fa[n] : n \in A}) /\ IsFiniteSet({fb[n] : n \in B})
  <2>1. DOMAIN fa = A /\ fa = [x \in A |-> fa[x]]
    OBVIOUS
  <2>2. DOMAIN fb = B /\ fb = [x \in B |-> fb[x]]
    OBVIOUS
  <2> HIDE DEF A, B, fa, fb
  <2>. QED
    BY <1>1, <2>1, <2>2, FiniteValues
<1>4. \A n \in A : fa[n] \in Nat
    BY DEF Present, Rows, Peers
<1>5. \A n \in B : fb[n] \in Nat
    BY SnapshotFacts DEF SentRows, Peers
<1> DEFINE VA == {fa[n] : n \in A}
<1> DEFINE VB == {fb[n] : n \in B}
<1> HIDE DEF A, B, fa, fb
<1>6. StagingTaken(s) \subseteq Nat
    BY <1>2, <1>4, <1>5
<1>7. IsFiniteSet(StagingTaken(s))
  <2>1. StagingTaken(s) = VA \cup VB /\ IsFiniteSet(VA) /\ IsFiniteSet(VB)
    BY <1>2, <1>3
  <2> HIDE DEF VA, VB
  <2>2. IsFiniteSet(VA \cup VB)
    BY <2>1, FS_Union
  <2>. QED
    BY <2>1, <2>2
<1>. QED
    BY <1>6, <1>7

\* A placeholder is on TestNet, and its number is free.
LEMMA PlaceholderIsFree ==
    ASSUME NEW n \in Names, NEW taken \in SUBSET Nat, IsFiniteSet(taken)
    PROVE  \E k \in Nat \ taken : StagingPeer(n, taken) = <<TestNet, k>>
<1> DEFINE start == FirstAsn + IdOf[n]
<1> DEFINE last == start + Cardinality(taken)
<1> DEFINE T == (start..last) \ taken
<1>1. start \in Nat /\ Cardinality(taken) \in Nat /\ last \in Nat
    BY ImportAssumption, FS_CardinalityType
<1>2. T # {}
  <2>1. SUFFICES ASSUME start..last \in SUBSET taken PROVE FALSE
    OBVIOUS
  <2>2. Cardinality(start..last) = last - start + 1
    BY <1>1, FS_Interval
  <2>3. Cardinality(start..last) <= Cardinality(taken)
    BY <2>1, FS_Subset
  <2>. QED
    BY <1>1, <2>2, <2>3
<1>3. T \in SUBSET Nat
    BY <1>1
<1>4. Min(T) \in T
  <2> HIDE DEF T
  <2>1. PICK k \in T : \A t \in T : k <= t
    BY <1>2, <1>3, LeastOf
  <2>. QED
    BY <2>1 DEF Min
<1>5. Min(T) \in Nat \ taken
    BY <1>3, <1>4
<1>. QED
    BY <1>5 DEF StagingPeer

----------------------------------------------------------------------------
(* Staging: old peers get out of the way *)

Done(i) == {NameList[j] : j \in 1..i}
Moved(s, n) == /\ n \in Present(users) /\ Resolved(s, n)
               /\ users[n].peer # s.users[n].peer

\* The drafts d[0], ..., d[last] of the first loop of ApplyConfigSnapshot.
Staging(s, last, d) ==
    d = [i \in 0..last |->
           IF i = 0 THEN [ok |-> ModesAccepted(s), users |-> users,
                          taken |-> StagingTaken(s)]
           ELSE Stage(s, d[i - 1], NameList[i])]

\* A name that comes next is not done.
LEMMA DoneFacts ==
    /\ Done(0) = {} /\ Done(Len(NameList)) = Names
    /\ \A i \in 1..Len(NameList) :
          /\ NameList[i] \in Names \ Done(i - 1)
          /\ Done(i) = Done(i - 1) \cup {NameList[i]}
          /\ Done(i - 1) \subseteq Names
<1>1. Done(0) = {} /\ Done(Len(NameList)) = Names
    BY NameFacts DEF Done
<1>2. ASSUME NEW i \in 1..Len(NameList)
      PROVE  /\ NameList[i] \in Names \ Done(i - 1)
             /\ Done(i) = Done(i - 1) \cup {NameList[i]}
             /\ Done(i - 1) \subseteq Names
  <2>1. 1..i = (1..(i - 1)) \cup {i}
    BY NameFacts
  <2>2. \A j \in 1..(i - 1) : j \in 1..Len(NameList) /\ j # i
    BY NameFacts
  <2>. QED
    BY <2>1, <2>2, NameFacts DEF Done
<1>. QED
    BY <1>1, <1>2

LEMMA StagingExists ==
    ASSUME NEW s
    PROVE  \E d : Staging(s, Len(NameList), d) /\ Staged(s) = d[Len(NameList)]
<1> DEFINE L == Len(NameList)
<1> DEFINE S == {l \in 0..L : \E d : Staging(s, l, d)}
<1> DEFINE first == [ok |-> ModesAccepted(s), users |-> users,
                     taken |-> StagingTaken(s)]
<1>1. 0 \in S
  <2> DEFINE d == [i \in 0..0 |-> first]
  <2>1. Staging(s, 0, d)
    BY DEF Staging
  <2>. QED
    BY <2>1, NameFacts
<1>2. ASSUME NEW l \in 1..L, l - 1 \in S PROVE l \in S
  <2>1. PICK d : Staging(s, l - 1, d)
    BY <1>2
  <2> DEFINE e == [i \in 0..l |-> IF i < l THEN d[i]
                                 ELSE Stage(s, d[l - 1], NameList[l])]
  <2>2. \A i \in 0..(l - 1) : d[i] = IF i = 0 THEN first
                                  ELSE Stage(s, d[i - 1], NameList[i])
    BY <2>1 DEF Staging
  <2> HIDE DEF first
  <2>3. ASSUME NEW i \in 0..l
        PROVE  e[i] = IF i = 0 THEN first
                      ELSE Stage(s, e[i - 1], NameList[i])
    <3>1. CASE i = 0
      BY <2>2, <3>1, NameFacts
    <3>2. CASE i # 0 /\ i < l
      <4>1. /\ i \in 0..(l - 1) /\ i - 1 \in 0..l /\ i - 1 < l
            /\ e[i] = d[i] /\ e[i - 1] = d[i - 1]
        BY <3>2, NameFacts
      <4>. QED
        BY <2>2, <3>2, <4>1
    <3>3. CASE i = l
      BY <3>3, NameFacts
    <3>. QED
      BY <3>1, <3>2, <3>3, NameFacts
  <2>4. Staging(s, l, e)
    BY <2>3 DEF Staging, first
  <2>. QED
    BY <2>4
<1>3. L \in S
  <2> HIDE DEF S
  <2>1. L \in Nat /\ \A i \in 1..L : i - 1 \in S => i \in S
    BY <1>2, NameFacts
  <2> HIDE DEF L
  <2>2. \A i \in 0..L : i \in S
    BY <1>1, <2>1, AlongList
  <2>. QED
    BY <2>1, <2>2
<1>4. PICK d : Staging(s, L, d)
    BY <1>3
<1>5. Staging(s, L, CHOOSE e : Staging(s, L, e))
    BY <1>4
<1>6. Staged(s) = (CHOOSE e : Staging(s, L, e))[L]
    BY DEF Staged, Staging
<1>. QED
    BY <1>5, <1>6

\* Where the first loop is after i names: nobody but those who move to
\* another peer is changed, and these are on placeholders that nobody uses.
StageInv(s, e, i) ==
    /\ e \in Drafts /\ IsFiniteSet(e.taken) /\ StagingTaken(s) \subseteq e.taken
    /\ e.ok = ModesAccepted(s)
    /\ \A n \in Names \ Done(i) : e.users[n] = users[n]
    /\ \A n \in Done(i) : ~Moved(s, n) => e.users[n] = users[n]
    /\ \A n \in Done(i) : Moved(s, n) =>
          \E k \in e.taken \ StagingTaken(s) :
             e.users[n] = [users[n] EXCEPT !.peer = <<TestNet, k>>]

LEMMA RowMoved ==
    ASSUME NEW u \in Rows, NEW k \in Nat
    PROVE  /\ [u EXCEPT !.peer = <<TestNet, k>>] \in Rows
           /\ [u EXCEPT !.peer = <<TestNet, k>>].peer = <<TestNet, k>>
<1>1. <<TestNet, k>> \in Peers
    BY ImportAssumption DEF Peers
<1>. QED
    BY <1>1 DEF Rows

\* The next name is staged, and the database does not refuse it.
LEMMA StageStep ==
    ASSUME NEW s \in Snapshots, users \in [Names -> Rows \cup {NoUser}],
           NEW i \in 1..Len(NameList), NEW e, StageInv(s, e, i - 1)
    PROVE  StageInv(s, Stage(s, e, NameList[i]), i)
<1> DEFINE n == NameList[i]
<1>0. /\ n \in Names \ Done(i - 1) /\ Done(i) = Done(i - 1) \cup {n}
      /\ Done(i - 1) \subseteq Names
    BY DoneFacts
<1> HIDE DEF n
<1>1. /\ e \in Drafts /\ IsFiniteSet(e.taken) /\ StagingTaken(s) \subseteq e.taken
      /\ e.ok = ModesAccepted(s) /\ e.users[n] = users[n]
    BY <1>0 DEF StageInv
<1>2. CASE ~Moved(s, n)
  <2>1. Stage(s, e, n) = e
    BY <1>2 DEF Stage, Moved
  <2>2. StageInv(s, e, i)
    BY <1>0, <1>1, <1>2 DEF StageInv
  <2>. QED
    BY <2>1, <2>2 DEF n
<1>3. CASE Moved(s, n)
  <2>1. PICK k \in Nat \ e.taken : StagingPeer(n, e.taken) = <<TestNet, k>>
    BY <1>0, <1>1, PlaceholderIsFree DEF Drafts
  <2> DEFINE peer == <<TestNet, k>>
  <2> DEFINE moved == [users[n] EXCEPT !.peer = peer]
  <2> DEFINE f == [ok |-> e.ok, users |-> [e.users EXCEPT ![n] = moved],
                   taken |-> e.taken \cup {k}]
  <2>2. users[n] \in Rows /\ moved \in Rows /\ moved.peer = peer
    BY <1>0, <1>3, RowMoved DEF Moved, Present
  <2>3. Free(e.users, n, peer)
    <3>1. SUFFICES ASSUME NEW o \in Names \ {n}, e.users[o] # NoUser,
                          e.users[o].peer = peer
                   PROVE  FALSE
      BY DEF Free, Present
    <3>2. CASE o \in Done(i - 1) /\ Moved(s, o)
      <4>1. PICK j \in e.taken \ StagingTaken(s) :
               e.users[o] = [users[o] EXCEPT !.peer = <<TestNet, j>>]
        BY <3>2 DEF StageInv
      <4>2. users[o] \in Rows /\ j \in Nat
        BY <1>1, <3>2 DEF Moved, Present, Drafts
      <4>3. e.users[o].peer = <<TestNet, j>>
        BY <4>1, <4>2, RowMoved
      <4>. QED
        BY <2>1, <3>1, <4>3
    <3>3. CASE ~(o \in Done(i - 1) /\ Moved(s, o))
      <4>1. e.users[o] = users[o]
        BY <3>1, <3>3 DEF StageInv
      <4>2. users[o].peer[1] = TestNet /\ users[o].peer[2] = k
        BY <3>1, <4>1
      <4>3. k \in TakenInTable(s)
        BY <3>1, <4>1, <4>2 DEF TakenInTable, Present
      <4>. QED
        BY <1>1, <2>1, <4>3 DEF StagingTaken
    <3>. QED
      BY <3>2, <3>3
  <2>4. Stage(s, e, n) = f
    <3>1. peer[2] = k
      OBVIOUS
    <3>2. e.ok /\ Free(e.users, n, peer) <=> e.ok
      BY <2>3
    <3>3. (e.ok /\ Free(e.users, n, peer)) = e.ok
      BY <1>1, <3>2 DEF Drafts
    <3>4. [e.users EXCEPT ![n].peer = peer] = [e.users EXCEPT ![n] = moved]
      BY <1>1
    <3> HIDE DEF moved, peer
    <3>. QED
      BY <1>3, <2>1, <3>1, <3>3, <3>4 DEF Stage, Moved, peer
  <2>5. StageInv(s, f, i)
    <3>1. f \in Drafts
      BY <1>0, <1>1, <2>1, <2>2 DEF Drafts
    <3>2. IsFiniteSet(f.taken)
      BY <1>1, FS_AddElement
    <3>3. StagingTaken(s) \subseteq f.taken /\ f.ok = ModesAccepted(s)
      BY <1>1
    <3>4. \A o \in Names \ {n} : f.users[o] = e.users[o]
      BY <1>1 DEF Drafts
    <3>5. f.users[n] = moved
      BY <1>0, <1>1 DEF Drafts
    <3>6. k \in f.taken \ StagingTaken(s) /\ e.taken \subseteq f.taken
      BY <1>1, <2>1
    <3> HIDE DEF f
    <3>7. \A o \in Names \ Done(i) : f.users[o] = users[o]
      BY <1>0, <3>4 DEF StageInv
    <3>8. \A o \in Done(i) : ~Moved(s, o) => f.users[o] = users[o]
      BY <1>0, <1>3, <3>4 DEF StageInv
    <3>9. ASSUME NEW o \in Done(i), Moved(s, o)
          PROVE  \E j \in f.taken \ StagingTaken(s) :
                    f.users[o] = [users[o] EXCEPT !.peer = <<TestNet, j>>]
      <4>1. CASE o = n
        BY <3>5, <3>6, <4>1
      <4>2. CASE o # n
        <5>1. o \in Done(i - 1) /\ o \in Names \ {n}
          BY <1>0, <4>2
        <5>2. PICK j \in e.taken \ StagingTaken(s) :
                 e.users[o] = [users[o] EXCEPT !.peer = <<TestNet, j>>]
          BY <3>9, <5>1 DEF StageInv
        <5>3. f.users[o] = e.users[o] /\ j \in f.taken \ StagingTaken(s)
          BY <3>4, <3>6, <5>1
        <5>. QED
          BY <5>2, <5>3
      <4>. QED
        BY <4>1, <4>2
    <3>. QED
      BY <3>1, <3>2, <3>3, <3>7, <3>8, <3>9 DEF StageInv
  <2>. QED
    BY <2>4, <2>5 DEF n
<1>. QED
    BY <1>2, <1>3

\* What the first loop leaves.
LEMMA StagedFacts ==
    ASSUME NEW s \in Snapshots, users \in [Names -> Rows \cup {NoUser}]
    PROVE  StageInv(s, Staged(s), Len(NameList))
<1> DEFINE L == Len(NameList)
<1>1. PICK d : Staging(s, L, d) /\ Staged(s) = d[L]
    BY StagingExists
<1> DEFINE S == {i \in 0..L : StageInv(s, d[i], i)}
<1>2. 0 \in S
  <2> DEFINE first == [ok |-> ModesAccepted(s), users |-> users,
                       taken |-> StagingTaken(s)]
  <2>1. d[0] = first
    BY <1>1, NameFacts DEF Staging
  <2>2. StageInv(s, first, 0)
    BY TakenType, DoneFacts DEF StageInv, Drafts, ModesAccepted
  <2>. QED
    BY <2>1, <2>2, NameFacts
<1>3. ASSUME NEW i \in 1..L, i - 1 \in S PROVE i \in S
  <2>1. d[i] = Stage(s, d[i - 1], NameList[i])
    BY <1>1, NameFacts DEF Staging
  <2>2. StageInv(s, d[i - 1], i - 1) /\ i \in 0..L
    BY <1>3
  <2>3. StageInv(s, d[i], i)
    BY <2>1, <2>2, StageStep
  <2>. QED
    BY <2>2, <2>3
<1> HIDE DEF S
<1>4. L \in Nat /\ \A i \in 1..L : i - 1 \in S => i \in S
    BY <1>3, NameFacts
<1>5. \A i \in 0..L : i \in S
  <2> HIDE DEF L
  <2>. QED
    BY <1>2, <1>4, AlongList
<1>. QED
    BY <1>1, <1>4, <1>5 DEF S

----------------------------------------------------------------------------
(* Writing: the users get what the snapshot says *)

Writing(s, last, d) ==
    d = [i \in 0..last |-> IF i = 0 THEN Staged(s)
                           ELSE WriteUser(s, d[i - 1], NameList[i])]

LEMMA WritingExists ==
    ASSUME NEW s
    PROVE  \E d : Writing(s, Len(NameList), d) /\ Draft(s) = d[Len(NameList)]
<1> DEFINE L == Len(NameList)
<1> DEFINE S == {l \in 0..L : \E d : Writing(s, l, d)}
<1>1. 0 \in S
  <2> DEFINE d == [i \in 0..0 |-> Staged(s)]
  <2>1. Writing(s, 0, d)
    BY DEF Writing
  <2>. QED
    BY <2>1, NameFacts
<1>2. ASSUME NEW l \in 1..L, l - 1 \in S PROVE l \in S
  <2>1. PICK d : Writing(s, l - 1, d)
    BY <1>2
  <2> DEFINE e == [i \in 0..l |-> IF i < l THEN d[i]
                                 ELSE WriteUser(s, d[l - 1], NameList[l])]
  <2>2. \A i \in 0..(l - 1) : d[i] = IF i = 0 THEN Staged(s)
                                  ELSE WriteUser(s, d[i - 1], NameList[i])
    BY <2>1 DEF Writing
  <2>3. ASSUME NEW i \in 0..l
        PROVE  e[i] = IF i = 0 THEN Staged(s)
                      ELSE WriteUser(s, e[i - 1], NameList[i])
    <3>1. CASE i = 0
      BY <2>2, <3>1, NameFacts
    <3>2. CASE i # 0 /\ i < l
      <4>1. /\ i \in 0..(l - 1) /\ i - 1 \in 0..l /\ i - 1 < l
            /\ e[i] = d[i] /\ e[i - 1] = d[i - 1]
        BY <3>2, NameFacts
      <4>. QED
        BY <2>2, <3>2, <4>1
    <3>3. CASE i = l
      BY <3>3, NameFacts
    <3>. QED
      BY <3>1, <3>2, <3>3, NameFacts
  <2>4. Writing(s, l, e)
    BY <2>3 DEF Writing
  <2>. QED
    BY <2>4
<1>3. L \in S
  <2> HIDE DEF S
  <2>1. L \in Nat /\ \A i \in 1..L : i - 1 \in S => i \in S
    BY <1>2, NameFacts
  <2> HIDE DEF L
  <2>2. \A i \in 0..L : i \in S
    BY <1>1, <2>1, AlongList
  <2>. QED
    BY <2>1, <2>2
<1>4. PICK d : Writing(s, L, d)
    BY <1>3
<1>5. Writing(s, L, CHOOSE e : Writing(s, L, e))
    BY <1>4
<1>6. Draft(s) = (CHOOSE e : Writing(s, L, e))[L]
    BY DEF Draft, Writing
<1>. QED
    BY <1>5, <1>6

\* Whoever there is after the first loop may take the peer the snapshot has
\* for n: he is done already and keeps away, or is on a placeholder, or wants
\* the peer himself.
Apart(us, s, n) ==
    \A o \in Names \ {n} : us[o] # NoUser => us[o].peer # s.users[n].peer
WriteInv(s, e, i) ==
    /\ e \in Drafts
    /\ \A n \in Names \ Done(i) : e.users[n] = Staged(s).users[n]
    /\ \A n \in Done(i) : e.users[n] = FinalUser(s, n)
    /\ e.ok <=> /\ ModesAccepted(s)
                /\ \A n \in Done(i) : Resolved(s, n) => Apart(e.users, s, n)

\* What the first loop did to one user.
LEMMA StagedUser ==
    ASSUME NEW s \in Snapshots, users \in [Names -> Rows \cup {NoUser}],
           NEW n \in Names
    PROVE  /\ ~Resolved(s, n) => Staged(s).users[n] = users[n]
           /\ Staged(s).users[n] = NoUser <=> users[n] = NoUser
           /\ \A o \in Names :
                 /\ Staged(s).users[n] # NoUser /\ Resolved(s, n)
                 /\ Resolved(s, o) /\ Staged(s).users[n].peer = s.users[o].peer
                 => s.users[n].peer = s.users[o].peer
<1> DEFINE e == Staged(s)
<1>1. StageInv(s, e, Len(NameList)) /\ Done(Len(NameList)) = Names
    BY StagedFacts, DoneFacts
<1> HIDE DEF e
<1>2. CASE ~Moved(s, n)
  <2>1. e.users[n] = users[n]
    BY <1>1, <1>2 DEF StageInv
  <2>2. users[n] # NoUser /\ Resolved(s, n) => users[n].peer = s.users[n].peer
    BY <1>2 DEF Moved, Present
  <2>. QED
    BY <2>1, <2>2 DEF e
<1>3. CASE Moved(s, n)
  <2>1. PICK k \in e.taken \ StagingTaken(s) :
           e.users[n] = [users[n] EXCEPT !.peer = <<TestNet, k>>]
    BY <1>1, <1>3 DEF StageInv
  <2>2. users[n] \in Rows /\ k \in Nat /\ Resolved(s, n)
    BY <1>1, <1>3 DEF StageInv, Drafts, Moved, Present
  <2>3. e.users[n] \in Rows /\ e.users[n].peer = <<TestNet, k>>
    BY <2>1, <2>2, RowMoved
  <2>4. e.users[n] # NoUser /\ users[n] # NoUser
    BY <2>2, <2>3, ImportAssumption
  <2>5. ASSUME NEW o \in Names, Resolved(s, o),
               e.users[n].peer = s.users[o].peer
        PROVE  FALSE
    <3>1. s.users[o].peer[1] = TestNet /\ s.users[o].peer[2] = k
      BY <2>3, <2>5
    <3>2. o \in DOMAIN s.users
      BY <2>5 DEF Resolved
    <3>3. k \in StagingTaken(s)
      BY <3>1, <3>2 DEF StagingTaken
    <3>. QED
      BY <2>1, <3>3
  <2>. QED
    BY <2>2, <2>4, <2>5 DEF e
<1>. QED
    BY <1>2, <1>3

\* What a user is left with is a row of the table.
LEMMA FinalRow ==
    ASSUME NEW s \in Snapshots, users \in [Names -> Rows \cup {NoUser}],
           NEW n \in Names
    PROVE  /\ FinalUser(s, n) \in Rows \cup {NoUser}
           /\ Resolved(s, n) => FinalUser(s, n) \in Rows
           /\ Resolved(s, n) => FinalUser(s, n).peer = s.users[n].peer
<1>1. CASE Resolved(s, n)
  <2>1. s.users[n] \in SentRows
    BY <1>1, SnapshotFacts DEF Resolved
  <2>2. (IF users[n] = NoUser THEN NoKey ELSE users[n].key)
           \in Passwords \cup {NoKey}
    BY DEF Rows
  <2>. QED
    BY <1>1, <2>1, <2>2 DEF FinalUser, SentRows, Rows
<1>2. CASE ~Resolved(s, n)
    BY <1>2 DEF FinalUser
<1>. QED
    BY <1>1, <1>2

\* The next user is written; the database refuses him exactly if his new peer
\* is another's.
LEMMA WriteStep ==
    ASSUME NEW s \in Snapshots, users \in [Names -> Rows \cup {NoUser}],
           NEW i \in 1..Len(NameList), NEW e, WriteInv(s, e, i - 1)
    PROVE  WriteInv(s, WriteUser(s, e, NameList[i]), i)
<1> DEFINE n == NameList[i]
<1>0. /\ n \in Names \ Done(i - 1) /\ Done(i) = Done(i - 1) \cup {n}
      /\ Done(i - 1) \subseteq Names
    BY DoneFacts
<1> HIDE DEF n
<1>1. /\ e \in Drafts /\ e.users[n] = Staged(s).users[n]
      /\ e.ok <=> /\ ModesAccepted(s)
                  /\ \A o \in Done(i - 1) : Resolved(s, o) => Apart(e.users, s, o)
    BY <1>0 DEF WriteInv
<1>2. CASE ~Resolved(s, n)
  <2>1. WriteUser(s, e, n) = e
    BY <1>2 DEF WriteUser
  <2>2. e.users[n] = FinalUser(s, n)
    BY <1>0, <1>1, <1>2, StagedUser DEF FinalUser
  <2>3. WriteInv(s, e, i)
    BY <1>0, <1>1, <1>2, <2>2 DEF WriteInv
  <2>. QED
    BY <2>1, <2>3 DEF n
<1>3. CASE Resolved(s, n)
  <2> DEFINE peer == s.users[n].peer
  <2> DEFINE new == FinalUser(s, n)
  <2> DEFINE f == [ok |-> (e.ok /\ Free(e.users, n, peer)),
                   users |-> [e.users EXCEPT ![n] = new], taken |-> e.taken]
  <2>1. new \in Rows /\ new.peer = peer /\ new # NoUser
    BY <1>0, <1>3, FinalRow, ImportAssumption
  <2>2. WriteUser(s, e, n) = f
    BY <1>1, <1>3 DEF WriteUser, Drafts, FinalUser
  <2>3. f \in Drafts
    BY <1>0, <1>1, <2>1 DEF Drafts
  <2>4. /\ \A o \in Names \ {n} : f.users[o] = e.users[o]
        /\ f.users[n] = new
    BY <1>0, <1>1 DEF Drafts
  <2>5. f.ok <=> e.ok /\ Apart(e.users, s, n)
    BY DEF Apart, Free, Present
  <2> HIDE DEF f, new, peer
  <2>6. Apart(e.users, s, n) <=> Apart(f.users, s, n)
    BY <2>4 DEF Apart
  <2>7. ASSUME NEW o \in Done(i - 1), Resolved(s, o), Apart(f.users, s, n)
        PROVE  Apart(e.users, s, o) <=> Apart(f.users, s, o)
    <3>1. o \in Names /\ n \in Names /\ o # n
      BY <1>0
    <3>2. f.users[o] = FinalUser(s, o) /\ f.users[o] \in Rows
      BY <2>4, <2>7, <3>1, FinalRow DEF WriteInv
    <3>3. f.users[o].peer = s.users[o].peer /\ f.users[o] # NoUser
      BY <2>7, <3>1, <3>2, FinalRow, ImportAssumption
    <3>4. s.users[o].peer # s.users[n].peer
      BY <2>7, <3>1, <3>3 DEF Apart
    <3>5. f.users[n].peer # s.users[o].peer
      BY <2>1, <2>4, <3>4 DEF peer
    <3>6. e.users[n] # NoUser => e.users[n].peer # s.users[o].peer
      BY <1>1, <1>3, <2>7, <3>1, <3>4, StagedUser
    <3>. QED
      BY <2>4, <3>5, <3>6 DEF Apart
  <2>8. f.ok <=> /\ ModesAccepted(s)
                 /\ \A o \in Done(i) : Resolved(s, o) => Apart(f.users, s, o)
    BY <1>0, <1>1, <1>3, <2>5, <2>6, <2>7
  <2>9. \A o \in Names \ Done(i) : f.users[o] = Staged(s).users[o]
    BY <1>0, <2>4 DEF WriteInv
  <2>10. \A o \in Done(i) : f.users[o] = FinalUser(s, o)
    BY <1>0, <2>4 DEF WriteInv, new
  <2>. QED
    BY <2>2, <2>3, <2>8, <2>9, <2>10 DEF WriteInv, n
<1>. QED
    BY <1>2, <1>3

\* What both loops leave, in whatever order they go: the users have what the
\* snapshot says, and the database accepts it exactly if no two of them have
\* one peer.
LEMMA DraftFacts ==
    ASSUME NEW s \in Snapshots, users \in [Names -> Rows \cup {NoUser}],
           PeersAreUnique(users)
    PROVE  /\ Draft(s).users = FinalUsers(s)
           /\ Draft(s).ok <=> /\ ModesAccepted(s)
                              /\ PeersAreUnique(FinalUsers(s))
           /\ FinalUsers(s) \in [Names -> Rows \cup {NoUser}]
<1> DEFINE L == Len(NameList)
<1> DEFINE e == Draft(s)
<1> DEFINE final == FinalUsers(s)
<1>1. PICK d : Writing(s, L, d) /\ e = d[L]
    BY WritingExists
<1> DEFINE S == {i \in 0..L : WriteInv(s, d[i], i)}
<1>2. 0 \in S
  <2>1. d[0] = Staged(s)
    BY <1>1, NameFacts DEF Writing
  <2>2. Staged(s) \in Drafts /\ (Staged(s).ok <=> ModesAccepted(s))
    BY StagedFacts DEF StageInv
  <2>3. WriteInv(s, Staged(s), 0)
    BY <2>2, DoneFacts DEF WriteInv
  <2>. QED
    BY <2>1, <2>3, NameFacts
<1>3. ASSUME NEW i \in 1..L, i - 1 \in S PROVE i \in S
  <2>1. d[i] = WriteUser(s, d[i - 1], NameList[i])
    BY <1>1, NameFacts DEF Writing
  <2>2. WriteInv(s, d[i - 1], i - 1) /\ i \in 0..L
    BY <1>3
  <2>3. WriteInv(s, d[i], i)
    BY <2>1, <2>2, WriteStep
  <2>. QED
    BY <2>2, <2>3
<1>4. L \in 0..L /\ L \in S
  <2> HIDE DEF S
  <2>1. L \in Nat /\ \A i \in 1..L : i - 1 \in S => i \in S
    BY <1>3, NameFacts
  <2> HIDE DEF L
  <2>2. \A i \in 0..L : i \in S
    BY <1>2, <2>1, AlongList
  <2>. QED
    BY <2>1, <2>2
<1>5. WriteInv(s, e, L) /\ Done(L) = Names
    BY <1>1, <1>4, DoneFacts
<1> HIDE DEF e, final
<1>6. final \in [Names -> Rows \cup {NoUser}]
    BY FinalRow DEF final, FinalUsers
<1>7. e.users = final
  <2>1. e.users \in [Names -> Rows \cup {NoUser}]
    BY <1>5 DEF WriteInv, Drafts
  <2>2. \A n \in Names : e.users[n] = final[n]
    BY <1>5 DEF WriteInv, final, FinalUsers
  <2>. QED
    BY <1>6, <2>1, <2>2
<1>8. e.ok <=> /\ ModesAccepted(s)
               /\ \A n \in Names : Resolved(s, n) => Apart(final, s, n)
    BY <1>5, <1>7 DEF WriteInv
<1>9. (\A n \in Names : Resolved(s, n) => Apart(final, s, n))
        <=> PeersAreUnique(final)
  <2>1. \A n \in Names : Resolved(s, n) =>
           final[n] # NoUser /\ final[n].peer = s.users[n].peer
    BY FinalRow, ImportAssumption DEF final, FinalUsers
  <2>2. \A n \in Names : ~Resolved(s, n) => final[n] = users[n]
    BY DEF final, FinalUsers, FinalUser
  <2>3. ASSUME PeersAreUnique(final), NEW n \in Names, Resolved(s, n)
        PROVE  Apart(final, s, n)
    BY <2>1, <2>3 DEF PeersAreUnique, Free, Present, Apart
  <2>4. ASSUME \A n \in Names : Resolved(s, n) => Apart(final, s, n),
               NEW n \in Names, NEW o \in Names \ {n},
               final[n] # NoUser, final[o] # NoUser
        PROVE  final[o].peer # final[n].peer
    <3>1. CASE Resolved(s, n)
      BY <2>1, <2>4, <3>1 DEF Apart
    <3>2. CASE Resolved(s, o)
      BY <2>1, <2>4, <3>2 DEF Apart
    <3>3. CASE ~Resolved(s, n) /\ ~Resolved(s, o)
      BY <2>2, <2>4, <3>3 DEF PeersAreUnique, Free, Present
    <3>. QED
      BY <3>1, <3>2, <3>3
  <2>. QED
    BY <2>3, <2>4 DEF PeersAreUnique, Free, Present
<1>. QED
    BY <1>6, <1>7, <1>8, <1>9 DEF e, final

----------------------------------------------------------------------------
(* The numbers of a mode *)

PairsDone(i) == {PairList[j] : j \in 1..i}
Numbering(num, given, last, d) ==
    d = [i \in 0..last |->
           IF i = 0 THEN [ok |-> TRUE, num |-> Cleared(num, given)]
           ELSE IF PairList[i] \notin DOMAIN given THEN d[i - 1]
           ELSE SetNumber(d[i - 1], PairList[i], given[PairList[i]])]

LEMMA PairFacts ==
    /\ Len(PairList) \in Nat
    /\ PairsDone(0) = {} /\ PairsDone(Len(PairList)) = Pairs
    /\ \A i \in 1..Len(PairList) :
          /\ PairList[i] \in Pairs \ PairsDone(i - 1)
          /\ PairsDone(i) = PairsDone(i - 1) \cup {PairList[i]}
          /\ PairsDone(i - 1) \subseteq Pairs
<1>1. PairList \in Seq(Pairs) /\ IsInjective(PairList)
    BY ImportAssumption
<1>2. /\ Len(PairList) \in Nat /\ DOMAIN PairList = 1..Len(PairList)
      /\ \A p \in Pairs : \E i \in 1..Len(PairList) : PairList[i] = p
      /\ \A i \in 1..Len(PairList) : PairList[i] \in Pairs
      /\ \A i, j \in 1..Len(PairList) : PairList[i] = PairList[j] => i = j
    BY <1>1 DEF Pairs, Range, IsInjective
<1>3. PairsDone(0) = {} /\ PairsDone(Len(PairList)) = Pairs
    BY <1>2 DEF PairsDone
<1>4. ASSUME NEW i \in 1..Len(PairList)
      PROVE  /\ PairList[i] \in Pairs \ PairsDone(i - 1)
             /\ PairsDone(i) = PairsDone(i - 1) \cup {PairList[i]}
             /\ PairsDone(i - 1) \subseteq Pairs
  <2>1. 1..i = (1..(i - 1)) \cup {i}
    BY <1>2
  <2>2. \A j \in 1..(i - 1) : j \in 1..Len(PairList) /\ j # i
    BY <1>2
  <2>. QED
    BY <2>1, <2>2, <1>2 DEF PairsDone
<1>. QED
    BY <1>2, <1>3, <1>4

LEMMA NumberingExists ==
    ASSUME NEW num, NEW given
    PROVE  \E d : /\ Numbering(num, given, Len(PairList), d)
                  /\ NumbersSet(num, given) = d[Len(PairList)]
<1> DEFINE L == Len(PairList)
<1> DEFINE S == {l \in 0..L : \E d : Numbering(num, given, l, d)}
<1> DEFINE first == [ok |-> TRUE, num |-> Cleared(num, given)]
<1> DEFINE next(x, i) == IF PairList[i] \notin DOMAIN given THEN x
                         ELSE SetNumber(x, PairList[i], given[PairList[i]])
<1>1. 0 \in S
  <2> DEFINE d == [i \in 0..0 |-> first]
  <2>1. Numbering(num, given, 0, d)
    BY DEF Numbering
  <2>. QED
    BY <2>1, PairFacts
<1>2. ASSUME NEW l \in 1..L, l - 1 \in S PROVE l \in S
  <2>1. PICK d : Numbering(num, given, l - 1, d)
    BY <1>2
  <2> DEFINE e == [i \in 0..l |-> IF i < l THEN d[i] ELSE next(d[l - 1], l)]
  <2>2. \A i \in 0..(l - 1) : d[i] = IF i = 0 THEN first ELSE next(d[i - 1], i)
    BY <2>1 DEF Numbering
  <2> HIDE DEF first, next
  <2>3. ASSUME NEW i \in 0..l
        PROVE  e[i] = IF i = 0 THEN first ELSE next(e[i - 1], i)
    <3>1. CASE i = 0
      BY <2>2, <3>1, PairFacts
    <3>2. CASE i # 0 /\ i < l
      <4>1. /\ i \in 0..(l - 1) /\ i - 1 \in 0..l /\ i - 1 < l
            /\ e[i] = d[i] /\ e[i - 1] = d[i - 1]
        BY <3>2, PairFacts
      <4>. QED
        BY <2>2, <3>2, <4>1
    <3>3. CASE i = l
      BY <3>3, PairFacts
    <3>. QED
      BY <3>1, <3>2, <3>3, PairFacts
  <2>4. Numbering(num, given, l, e)
    BY <2>3 DEF Numbering, first, next
  <2>. QED
    BY <2>4
<1>3. L \in S
  <2> HIDE DEF S
  <2>1. L \in Nat /\ \A i \in 1..L : i - 1 \in S => i \in S
    BY <1>2, PairFacts
  <2> HIDE DEF L
  <2>2. \A i \in 0..L : i \in S
    BY <1>1, <2>1, AlongList
  <2>. QED
    BY <2>1, <2>2
<1>4. PICK d : Numbering(num, given, L, d)
    BY <1>3
<1>5. Numbering(num, given, L, CHOOSE e : Numbering(num, given, L, e))
    BY <1>4
<1>6. NumbersSet(num, given) = (CHOOSE e : Numbering(num, given, L, e))[L]
    BY DEF NumbersSet, Numbering
<1>. QED
    BY <1>5, <1>6

\* What the numbers of a mode are when all are set.
FinalNum(num, given) ==
    [p \in Pairs |-> IF p \in DOMAIN given THEN given[p] ELSE num[p]]
NumbersInv(num, given, e, i) ==
    /\ e \in [ok : BOOLEAN, num : [Pairs -> Nat]]
    /\ \A p \in Pairs \ PairsDone(i) : e.num[p] = Cleared(num, given)[p]
    /\ \A p \in PairsDone(i) : e.num[p] = FinalNum(num, given)[p]
    /\ e.ok <=> \A p \in PairsDone(i) \cap DOMAIN given : \A q \in Pairs \ {p} :
                   e.num[q] # given[p]

LEMMA NumbersStep ==
    ASSUME NEW num \in [Pairs -> Nat], NEW given, DOMAIN given \subseteq Pairs,
           \A p \in DOMAIN given : given[p] \in Nat \ {0},
           NEW i \in 1..Len(PairList), NEW e, NumbersInv(num, given, e, i - 1),
           PairList[i] \in DOMAIN given
    PROVE  NumbersInv(num, given,
                      SetNumber(e, PairList[i], given[PairList[i]]), i)
<1> DEFINE r == PairList[i]
<1> DEFINE f == [ok  |-> (e.ok /\ \A q \in Pairs \ {r} : e.num[q] # given[r]),
                 num |-> [e.num EXCEPT ![r] = given[r]]]
<1>0. /\ r \in Pairs \ PairsDone(i - 1) /\ PairsDone(i) = PairsDone(i - 1) \cup {r}
      /\ PairsDone(i - 1) \subseteq Pairs /\ r \in DOMAIN given
    BY PairFacts
<1>1. SetNumber(e, r, given[r]) = f
    BY DEF SetNumber
<1> HIDE DEF r
<1>2. /\ \A q \in Pairs \ {r} : f.num[q] = e.num[q]
      /\ f.num[r] = given[r]
    BY <1>0 DEF NumbersInv
<1>3. f \in [ok : BOOLEAN, num : [Pairs -> Nat]]
    BY <1>0 DEF NumbersInv
<1>4. f.ok <=> e.ok /\ \A q \in Pairs \ {r} : f.num[q] # given[r]
    BY <1>2
<1> HIDE DEF f
<1>5. ASSUME NEW p \in PairsDone(i - 1) \cap DOMAIN given,
             \A q \in Pairs \ {r} : f.num[q] # given[r]
      PROVE  (\A q \in Pairs \ {p} : e.num[q] # given[p])
                <=> (\A q \in Pairs \ {p} : f.num[q] # given[p])
  <2>1. p \in Pairs \ {r}
    BY <1>0
  <2>2. f.num[p] = given[p]
    BY <1>2, <2>1 DEF NumbersInv, FinalNum
  <2>3. f.num[r] # given[p]
    BY <1>2, <1>5, <2>1, <2>2
  <2>4. e.num[r] = 0 /\ given[p] # 0
    BY <1>0 DEF NumbersInv, Cleared
  <2>. QED
    BY <1>2, <2>3, <2>4
<1>6. f.ok <=> \A p \in PairsDone(i) \cap DOMAIN given : \A q \in Pairs \ {p} :
                 f.num[q] # given[p]
    BY <1>0, <1>4, <1>5 DEF NumbersInv
<1>7. \A p \in Pairs \ PairsDone(i) : f.num[p] = Cleared(num, given)[p]
    BY <1>0, <1>2 DEF NumbersInv
<1>8. \A p \in PairsDone(i) : f.num[p] = FinalNum(num, given)[p]
    BY <1>0, <1>2 DEF NumbersInv, FinalNum
<1>. QED
    BY <1>1, <1>3, <1>6, <1>7, <1>8 DEF NumbersInv, r

\* In whatever order they are set: the named numbers are what is given and the
\* others what they were, and the database accepts it exactly if no two
\* services have one number.
LEMMA NumbersFacts ==
    ASSUME NEW num \in [Pairs -> Nat], NumbersAreUnique(num),
           NEW given, DOMAIN given \subseteq Pairs,
           \A p \in DOMAIN given : given[p] \in Nat \ {0}
    PROVE  /\ NumbersSet(num, given).num = FinalNum(num, given)
           /\ NumbersSet(num, given).ok <=> NumbersAreUnique(FinalNum(num, given))
           /\ FinalNum(num, given) \in [Pairs -> Nat]
<1> DEFINE L == Len(PairList)
<1> DEFINE e == NumbersSet(num, given)
<1> DEFINE final == FinalNum(num, given)
<1>1. PICK d : Numbering(num, given, L, d) /\ e = d[L]
    BY NumberingExists
<1> DEFINE S == {i \in 0..L : NumbersInv(num, given, d[i], i)}
<1>2. 0 \in S
  <2> DEFINE first == [ok |-> TRUE, num |-> Cleared(num, given)]
  <2>1. d[0] = first
    BY <1>1, PairFacts DEF Numbering
  <2>2. NumbersInv(num, given, first, 0)
    BY PairFacts DEF NumbersInv, Cleared
  <2>. QED
    BY <2>1, <2>2, PairFacts
<1>3. ASSUME NEW i \in 1..L, i - 1 \in S PROVE i \in S
  <2>1. d[i] = IF PairList[i] \notin DOMAIN given THEN d[i - 1]
               ELSE SetNumber(d[i - 1], PairList[i], given[PairList[i]])
    <3> DEFINE first == [ok |-> TRUE, num |-> Cleared(num, given)]
    <3> DEFINE next(x, j) == IF PairList[j] \notin DOMAIN given THEN x
                             ELSE SetNumber(x, PairList[j], given[PairList[j]])
    <3>1. d = [j \in 0..L |-> IF j = 0 THEN first ELSE next(d[j - 1], j)]
      BY <1>1 DEF Numbering
    <3>2. i \in 0..L /\ i # 0
      BY PairFacts
    <3> HIDE DEF first, next
    <3>3. d[i] = next(d[i - 1], i)
      BY <3>1, <3>2
    <3>. QED
      BY <3>3 DEF next
  <2>2. CASE PairList[i] \in DOMAIN given
    <3>1. NumbersInv(num, given, d[i - 1], i - 1) /\ i \in 0..L
      BY <1>3
    <3>2. NumbersInv(num, given, d[i], i)
      BY <2>1, <2>2, <3>1, NumbersStep
    <3>. QED
      BY <3>1, <3>2
  <2>3. CASE PairList[i] \notin DOMAIN given
    <3>1. NumbersInv(num, given, d[i - 1], i - 1)
      BY <1>3
    <3>2. /\ PairList[i] \in Pairs \ PairsDone(i - 1)
          /\ PairsDone(i) = PairsDone(i - 1) \cup {PairList[i]}
      BY PairFacts
    <3>3. d[i - 1].num[PairList[i]] = FinalNum(num, given)[PairList[i]]
      BY <2>3, <3>1, <3>2 DEF NumbersInv, Cleared, FinalNum
    <3>4. NumbersInv(num, given, d[i - 1], i)
      BY <2>3, <3>1, <3>2, <3>3 DEF NumbersInv
    <3>. QED
      BY <2>1, <2>3, <3>4
  <2>. QED
    BY <2>2, <2>3
<1>4. L \in 0..L /\ L \in S
  <2> HIDE DEF S
  <2>1. L \in Nat /\ \A i \in 1..L : i - 1 \in S => i \in S
    BY <1>3, PairFacts
  <2> HIDE DEF L
  <2>2. \A i \in 0..L : i \in S
    BY <1>2, <2>1, AlongList
  <2>. QED
    BY <2>1, <2>2
<1>5. NumbersInv(num, given, e, L) /\ PairsDone(L) = Pairs
    BY <1>1, <1>4, PairFacts
<1> HIDE DEF e, final
<1>6. final \in [Pairs -> Nat]
    BY DEF final, FinalNum
<1>7. e.num = final
  <2>1. e.num \in [Pairs -> Nat] /\ \A p \in Pairs : e.num[p] = final[p]
    BY <1>5 DEF NumbersInv, final
  <2>. QED
    BY <1>6, <2>1
<1>8. e.ok <=> \A p \in DOMAIN given : \A q \in Pairs \ {p} : final[q] # given[p]
    BY <1>5, <1>7 DEF NumbersInv
<1>9. (\A p \in DOMAIN given : \A q \in Pairs \ {p} : final[q] # given[p])
        <=> NumbersAreUnique(final)
  <2>1. /\ \A p \in DOMAIN given : final[p] = given[p]
        /\ \A p \in Pairs \ DOMAIN given : final[p] = num[p]
    BY DEF final, FinalNum
  <2>2. ASSUME NumbersAreUnique(final), NEW p \in DOMAIN given,
               NEW q \in Pairs \ {p}
        PROVE  final[q] # given[p]
    BY <2>1, <2>2 DEF NumbersAreUnique
  <2>3. ASSUME \A p \in DOMAIN given : \A q \in Pairs \ {p} : final[q] # given[p],
               NEW p \in Pairs, NEW q \in Pairs, p # q, final[p] = final[q]
        PROVE  final[p] = 0
    <3>1. p \notin DOMAIN given /\ q \notin DOMAIN given
      BY <2>1, <2>3
    <3>. QED
      BY <2>1, <2>3, <3>1 DEF NumbersAreUnique
  <2>. QED
    BY <2>2, <2>3 DEF NumbersAreUnique
<1>. QED
    BY <1>6, <1>7, <1>8, <1>9 DEF e, final

----------------------------------------------------------------------------
(* The inductive invariant *)

Tracks == [peer : Peers, key : Passwords \cup {NoKey}]
ImportType ==
    /\ users \in [Names -> Rows \cup {NoUser}]
    /\ modes \in [ModeNames -> ModeRows \cup {NoMode}]
    /\ feeds \subseteq FeedNames
    /\ tracked \in [Names -> Tracks \cup {NoUser}]
    /\ preview # NoPreview => preview.of \in Snapshots
    /\ todo \subseteq Names /\ reread \in Rows \cup {NoUser} /\ clean \in BOOLEAN
    /\ spent \in [imports : Nat, edits : Nat, restarts : Nat]

\* What the indexes and the links of the tables promise.
TablesInv ==
    /\ PeersAreUnique(users)
    /\ \A m \in Live(modes) :
          NumbersAreUnique(modes[m].num) /\ modes[m].feeds \subseteq feeds

\* Who is not to do is in the manager already, unless a call was refused or
\* came in between.
ServedInv ==
    /\ reread # NoUser => todo # {}
    /\ clean => /\ \A n \in Names \ todo : tracked[n] = PeerOf(users[n])
                /\ \A n \in todo : users[n] # NoUser
                /\ reread # NoUser => reread = users[NextName]

ImportInv == ImportType /\ TablesInv /\ ServedInv

----------------------------------------------------------------------------
(* What an import writes *)

\* The modes an import writes, number by number.
LEMMA ModeFacts ==
    ASSUME NEW s \in Snapshots, ImportType, TablesInv, NEW m \in DOMAIN s.modes
    PROVE  LET num == [p \in Pairs |-> FinalNumber(s, m, p)]
           IN  /\ m \in ModeNames /\ num \in [Pairs -> Nat]
               /\ ModesWritten(s)[m] =
                     [on |-> s.modes[m].on, feeds |-> s.modes[m].feeds \cap feeds,
                      num |-> num]
               /\ ModesWritten(s)[m] \in ModeRows
               /\ NumbersSet(OldNumbers(m), s.modes[m].num).ok
                     <=> NumbersAreUnique(num)
<1> DEFINE given == s.modes[m].num
<1> DEFINE old == OldNumbers(m)
<1> DEFINE num == [p \in Pairs |-> FinalNumber(s, m, p)]
<1>1. /\ m \in ModeNames /\ s.modes[m].on \in BOOLEAN
      /\ s.modes[m].feeds \subseteq FeedNames
      /\ DOMAIN given \subseteq Pairs
      /\ \A p \in DOMAIN given : given[p] \in Nat \ {0}
    BY SnapshotFacts
<1>2. old \in [Pairs -> Nat] /\ NumbersAreUnique(old)
  <2>1. CASE modes[m] = NoMode
    BY <2>1 DEF OldNumbers, NumbersAreUnique
  <2>2. CASE modes[m] # NoMode
    <3>1. modes[m] \in ModeRows /\ m \in Live(modes)
      BY <1>1, <2>2 DEF ImportType, Live
    <3>. QED
      BY <2>2, <3>1 DEF OldNumbers, TablesInv, ModeRows
  <2>. QED
    BY <2>1, <2>2
<1>3. num = FinalNum(old, given)
    BY DEF FinalNumber, FinalNum
<1> HIDE DEF given, old, num
<1>4. /\ NumbersSet(old, given).num = num /\ num \in [Pairs -> Nat]
      /\ NumbersSet(old, given).ok <=> NumbersAreUnique(num)
    BY <1>1, <1>2, <1>3, NumbersFacts
<1>5. ModesWritten(s)[m] = [on |-> s.modes[m].on,
                            feeds |-> s.modes[m].feeds \cap feeds, num |-> num]
    BY <1>1, <1>4 DEF ModesWritten, ModeWritten, given, old
<1>6. ModesWritten(s)[m] \in ModeRows
    BY <1>1, <1>4, <1>5 DEF ModeRows
<1>. QED
    BY <1>1, <1>4, <1>5, <1>6 DEF given, old, num

\* The import accepts exactly what is valid, and writes what the snapshot says.
LEMMA AcceptedIsValid ==
    ASSUME NEW s \in Snapshots, ImportType, TablesInv
    PROVE  /\ Accepted(s) <=> ValidResult(s)
           /\ Draft(s).users = FinalUsers(s)
           /\ FinalUsers(s) \in [Names -> Rows \cup {NoUser}]
           /\ \A m \in DOMAIN s.modes : \A p \in Pairs :
                 ModesWritten(s)[m].num[p] = FinalNumber(s, m, p)
<1>1. /\ Draft(s).users = FinalUsers(s)
      /\ Draft(s).ok <=> ModesAccepted(s) /\ PeersAreUnique(FinalUsers(s))
      /\ FinalUsers(s) \in [Names -> Rows \cup {NoUser}]
    BY DraftFacts DEF ImportType, TablesInv
<1>2. ModesAccepted(s) <=>
         \A m \in DOMAIN s.modes :
            NumbersAreUnique([p \in Pairs |-> FinalNumber(s, m, p)])
    BY ModeFacts DEF ModesAccepted
<1>3. Accepted(s) <=> ValidResult(s)
    BY <1>1, <1>2 DEF Accepted, ValidResult
<1>4. ASSUME NEW m \in DOMAIN s.modes, NEW p \in Pairs
      PROVE  ModesWritten(s)[m].num[p] = FinalNumber(s, m, p)
  <2>1. ModesWritten(s)[m] =
          [on |-> s.modes[m].on, feeds |-> s.modes[m].feeds \cap feeds,
           num |-> [q \in Pairs |-> FinalNumber(s, m, q)]]
    BY ModeFacts
  <2>2. ModesWritten(s)[m].num = [q \in Pairs |-> FinalNumber(s, m, q)]
    BY <2>1
  <2>. QED
    BY <2>2
<1>. QED
    BY <1>1, <1>3, <1>4

\* Whoever an import confirms, it is the snapshot that was shown.
LEMMA ImportedIsShown ==
    ASSUME ImportType, NEW s, ApplyImport(s)
    PROVE  s = preview.of /\ s \in Snapshots /\ preview.onto = Snapshot
<1>1. preview = [of |-> s, onto |-> Snapshot]
    BY DEF ApplyImport, Digest
<1>2. preview.of = s /\ preview.onto = Snapshot
    BY <1>1
<1>. QED
    BY <1>2 DEF ImportType, ApplyImport

\* The name that comes next is one that is to do.
LEMMA NextIsToDo ==
    ASSUME todo \subseteq Names, todo # {}
    PROVE  NextName \in todo
<1> DEFINE T == {i \in DOMAIN NameList : NameList[i] \in todo}
<1>1. T \in SUBSET Nat /\ T # {}
    BY NameFacts
<1>2. Min(T) \in T
  <2> HIDE DEF T
  <2>1. PICK k \in T : \A t \in T : k <= t
    BY <1>1, LeastOf
  <2>. QED
    BY <2>1 DEF Min
<1>. QED
    BY <1>2 DEF NextName

----------------------------------------------------------------------------
(* The invariant is inductive *)

LEMMA PeerOfType ==
    ASSUME NEW u \in Rows \cup {NoUser}
    PROVE  PeerOf(u) \in Tracks \cup {NoUser}
BY DEF PeerOf, Rows, Tracks

LEMMA InitImportInv == ImportInit => ImportInv
<1> SUFFICES ASSUME ImportInit PROVE ImportInv
    OBVIOUS
<1>1. /\ users \in [Names -> Rows \cup {NoUser}] /\ PeersAreUnique(users)
      /\ modes \in [ModeNames -> ModeRows \cup {NoMode}]
      /\ \A m \in Live(modes) : NumbersAreUnique(modes[m].num)
    BY ImportAssumption DEF ImportInit
<1>2. /\ feeds \subseteq FeedNames
      /\ \A m \in Live(modes) : modes[m].feeds \subseteq feeds
  <2>1. \A m \in Live(modes) : modes[m] \in ModeRows
    BY <1>1 DEF Live
  <2>. QED
    BY <2>1 DEF ImportInit, ModeRows
<1>3. tracked \in [Names -> Tracks \cup {NoUser}]
    BY <1>1, PeerOfType DEF ImportInit, Wanted
<1>4. ImportType
    BY <1>1, <1>2, <1>3 DEF ImportInit, ImportType
<1>5. TablesInv
    BY <1>1, <1>2 DEF TablesInv
<1>6. ServedInv
    BY DEF ImportInit, ServedInv, Wanted
<1>. QED
    BY <1>4, <1>5, <1>6 DEF ImportInv

\* UpdatePeer: who is refused stays as he was.
LEMMA ToldFacts ==
    ASSUME ImportType, NEW n \in Names, NEW u \in Rows \cup {NoUser},
           TellManager(n, u)
    PROVE  /\ tracked' \in [Names -> Tracks \cup {NoUser}]
           /\ \A o \in Names \ {n} : tracked'[o] = tracked[o]
           /\ ~Refused(n, PeerOf(u)) => tracked'[n] = PeerOf(u)
BY PeerOfType DEF TellManager, ImportType

LEMMA ApplyKeepsInv ==
    ASSUME ImportInv, NEW s, ApplyImport(s)
    PROVE  ImportInv'
<1>1. ImportType /\ TablesInv /\ ServedInv
    BY DEF ImportInv
<1>2. s = preview.of /\ s \in Snapshots
    BY <1>1, ImportedIsShown
<1>3. /\ users' = FinalUsers(s) /\ users' \in [Names -> Rows \cup {NoUser}]
      /\ PeersAreUnique(users')
    BY <1>1, <1>2, AcceptedIsValid DEF ApplyImport, ValidResult
<1>4. /\ modes' = ModesWritten(s)
      /\ \A m \in ModeNames \ DOMAIN s.modes : modes'[m] = modes[m]
    BY DEF ApplyImport, ModesWritten
<1>5. ASSUME NEW m \in DOMAIN s.modes
      PROVE  /\ modes'[m] \in ModeRows /\ NumbersAreUnique(modes'[m].num)
             /\ modes'[m].feeds \subseteq feeds
  <2> DEFINE num == [p \in Pairs |-> FinalNumber(s, m, p)]
  <2>1. /\ modes'[m] = [on |-> s.modes[m].on,
                        feeds |-> s.modes[m].feeds \cap feeds, num |-> num]
        /\ modes'[m] \in ModeRows
    BY <1>1, <1>2, <1>4, ModeFacts
  <2>2. NumbersAreUnique(num)
    BY <1>1, <1>2, AcceptedIsValid DEF ApplyImport, ValidResult
  <2> HIDE DEF num
  <2>3. modes'[m].num = num /\ modes'[m].feeds = s.modes[m].feeds \cap feeds
    BY <2>1
  <2>. QED
    BY <2>1, <2>2, <2>3
<1>6. modes' \in [ModeNames -> ModeRows \cup {NoMode}]
  <2>1. modes' = [m \in ModeNames |-> modes'[m]]
    BY <1>4 DEF ModesWritten
  <2>2. \A m \in ModeNames : modes'[m] \in ModeRows \cup {NoMode}
    BY <1>1, <1>4, <1>5 DEF ImportType
  <2>. QED
    BY <2>1, <2>2
<1>7. /\ feeds' = feeds /\ tracked' = tracked /\ reread' = reread
      /\ clean' = clean /\ preview' = NoPreview /\ todo = {}
      /\ todo' = Affected(s) /\ todo' \subseteq Names
    BY DEF ApplyImport, Affected
<1>8. spent' \in [imports : Nat, edits : Nat, restarts : Nat]
    BY <1>1 DEF ApplyImport, Spend, ImportType
<1>9. ImportType'
    BY <1>1, <1>3, <1>6, <1>7, <1>8 DEF ImportType
<1>10. TablesInv'
  <2>1. ASSUME NEW m \in ModeNames, modes'[m] # NoMode
        PROVE  NumbersAreUnique(modes'[m].num) /\ modes'[m].feeds \subseteq feeds
    <3>1. CASE m \in DOMAIN s.modes
      BY <1>5, <3>1
    <3>2. CASE m \notin DOMAIN s.modes
      BY <1>1, <1>4, <2>1, <3>2 DEF TablesInv, Live
    <3>. QED
      BY <3>1, <3>2
  <2>. QED
    BY <1>3, <1>7, <2>1 DEF TablesInv, Live
<1>11. ServedInv'
  <2>1. reread = NoUser
    BY <1>1, <1>7 DEF ServedInv
  <2>2. ASSUME NEW n \in Names \ Affected(s), clean
        PROVE  tracked[n] = PeerOf(users'[n])
    <3>1. users'[n] = users[n]
      BY <1>3, <2>2 DEF FinalUsers, FinalUser, Affected
    <3>. QED
      BY <1>1, <1>7, <2>2, <3>1 DEF ServedInv
  <2>3. ASSUME NEW n \in Affected(s) PROVE users'[n] # NoUser
    <3>1. n \in Names /\ users'[n] = FinalUser(s, n) /\ FinalUser(s, n) \in Rows
      BY <1>1, <1>2, <1>3, FinalRow DEF FinalUsers, Affected, ImportType
    <3>. QED
      BY <3>1, ImportAssumption
  <2>. QED
    BY <1>7, <2>1, <2>2, <2>3 DEF ServedInv
<1>. QED
    BY <1>9, <1>10, <1>11 DEF ImportInv

LEMMA SyncKeepsInv ==
    ASSUME ImportInv, SyncGone \/ SyncRead \/ SyncPeer
    PROVE  ImportInv'
<1> DEFINE n == NextName
<1>0. ImportType /\ TablesInv /\ ServedInv
    BY DEF ImportInv
<1>1. n \in todo /\ n \in Names
    BY <1>0, NextIsToDo DEF ImportType, SyncGone, SyncRead, SyncPeer
<1>2. TablesInv'
    BY <1>0 DEF TablesInv, SyncGone, SyncRead, SyncPeer, tables, Live
<1>3. CASE SyncGone
  <2>1. ImportType'
    BY <1>0, <1>3 DEF ImportType, SyncGone, tables
  <2>2. ~clean
    BY <1>0, <1>1, <1>3 DEF ServedInv, SyncGone
  <2>3. ServedInv'
    BY <1>3, <2>2 DEF ServedInv, SyncGone
  <2>. QED
    BY <1>2, <2>1, <2>3 DEF ImportInv
<1>4. CASE SyncRead
  <2>1. users[n] \in Rows \cup {NoUser}
    BY <1>0, <1>1 DEF ImportType
  <2>2. ImportType'
    BY <1>0, <1>4, <2>1 DEF ImportType, SyncRead, tables
  <2>3. NextName' = NextName
    BY <1>4 DEF SyncRead, NextName
  <2>4. ServedInv'
    BY <1>0, <1>4, <2>3 DEF ServedInv, SyncRead, tables
  <2>. QED
    BY <1>2, <2>2, <2>4 DEF ImportInv
<1>5. CASE SyncPeer
  <2> HIDE DEF n
  <2>1. /\ TellManager(n, reread) /\ reread' = NoUser /\ todo' = todo \ {n}
        /\ clean' = (clean /\ ~Refused(n, PeerOf(reread)))
        /\ reread # NoUser
        /\ users' = users /\ modes' = modes /\ feeds' = feeds
        /\ preview' = preview /\ spent' = spent
    BY <1>5 DEF SyncPeer, tables, n
  <2>2. reread \in Rows \cup {NoUser}
    BY <1>0 DEF ImportType
  <2>3. /\ tracked' \in [Names -> Tracks \cup {NoUser}]
        /\ \A o \in Names \ {n} : tracked'[o] = tracked[o]
        /\ ~Refused(n, PeerOf(reread)) => tracked'[n] = PeerOf(reread)
    BY <1>0, <1>1, <2>1, <2>2, ToldFacts
  <2>4. ImportType'
    <3>1. clean' \in BOOLEAN
      BY <2>1
    <3>. QED
      BY <1>0, <2>1, <2>3, <3>1 DEF ImportType
  <2>5. ServedInv'
    <3>1. clean => reread = users[n]
      BY <1>0, <2>1 DEF ServedInv, n
    <3>2. ASSUME clean', NEW o \in Names \ todo'
          PROVE  tracked'[o] = PeerOf(users'[o])
      <4>1. CASE o = n
        BY <2>1, <2>3, <3>1, <3>2, <4>1
      <4>2. CASE o # n
        BY <1>0, <2>1, <2>3, <3>2, <4>2 DEF ServedInv
      <4>. QED
        BY <4>1, <4>2
    <3>. QED
      BY <1>0, <2>1, <3>2 DEF ServedInv
  <2>. QED
    BY <1>2, <2>4, <2>5 DEF ImportInv
<1>. QED
    BY <1>3, <1>4, <1>5

\* Another administrator's edit of a user.
LEMMA EditKeepsInv ==
    ASSUME ImportInv, NEW n \in Names,
           (\E u \in EditedRows : EditUser(n, u)) \/ DeleteUser(n)
    PROVE  ImportInv'
<1>0. ImportType /\ TablesInv /\ ServedInv
    BY DEF ImportInv
<1>1. PICK u \in Rows \cup {NoUser} :
         /\ Edited(n, u) /\ Spend("edits", MaxEdits)
         /\ u = NoUser \/ Free(users, n, u.peer)
    BY ImportAssumption DEF EditUser, DeleteUser
<1>2. /\ users' = [users EXCEPT ![n] = u] /\ TellManager(n, u)
      /\ clean' = (clean /\ todo = {} /\ ~Refused(n, PeerOf(u)))
      /\ modes' = modes /\ feeds' = feeds /\ preview' = preview
      /\ todo' = todo /\ reread' = reread
    BY <1>1 DEF Edited
<1>3. /\ tracked' \in [Names -> Tracks \cup {NoUser}]
      /\ \A o \in Names \ {n} : tracked'[o] = tracked[o]
      /\ ~Refused(n, PeerOf(u)) => tracked'[n] = PeerOf(u)
    BY <1>0, <1>2, ToldFacts
<1>4. /\ users' \in [Names -> Rows \cup {NoUser}] /\ users'[n] = u
      /\ \A o \in Names \ {n} : users'[o] = users[o]
    BY <1>0, <1>2 DEF ImportType
<1>5. spent' \in [imports : Nat, edits : Nat, restarts : Nat]
    BY <1>0, <1>1 DEF ImportType, Spend
<1>6. ImportType'
  <2>1. clean' \in BOOLEAN
    BY <1>2
  <2>. QED
    BY <1>0, <1>2, <1>3, <1>4, <1>5, <2>1 DEF ImportType
<1>7. PeersAreUnique(users')
  <2>1. SUFFICES ASSUME NEW o \in Names, NEW p \in Names \ {o},
                        users'[o] # NoUser, users'[p] # NoUser
                 PROVE  users'[p].peer # users'[o].peer
    BY DEF PeersAreUnique, Free, Present
  <2>2. CASE o = n
    BY <1>1, <1>4, <2>1, <2>2 DEF Free, Present
  <2>3. CASE p = n
    BY <1>1, <1>4, <2>1, <2>3 DEF Free, Present
  <2>4. CASE o # n /\ p # n
    BY <1>0, <1>4, <2>1, <2>4 DEF TablesInv, PeersAreUnique, Free, Present
  <2>. QED
    BY <2>2, <2>3, <2>4
<1>8. TablesInv'
    BY <1>0, <1>2, <1>7 DEF TablesInv, Live
<1>9. ServedInv'
  <2>1. ASSUME clean', NEW o \in Names PROVE tracked'[o] = PeerOf(users'[o])
    <3>1. CASE o = n
      BY <1>2, <1>3, <1>4, <2>1, <3>1
    <3>2. CASE o # n
      BY <1>0, <1>2, <1>3, <1>4, <2>1, <3>2 DEF ServedInv
    <3>. QED
      BY <3>1, <3>2
  <2>. QED
    BY <1>0, <1>2, <2>1 DEF ServedInv
<1>. QED
    BY <1>6, <1>8, <1>9 DEF ImportInv

\* Another administrator's edit of a mode or a feed.
LEMMA CatalogEditKeepsInv ==
    ASSUME ImportInv,
           \/ \E m \in ModeNames : EditMode(m)
           \/ \E f \in FeedNames : DropFeed(f)
    PROVE  ImportInv'
<1>0. ImportType /\ TablesInv /\ ServedInv
    BY DEF ImportInv
<1>1. /\ users' = users /\ tracked' = tracked /\ preview' = preview
      /\ todo' = todo /\ reread' = reread /\ clean' = clean
      /\ Spend("edits", MaxEdits) /\ feeds' \subseteq feeds
    BY DEF EditMode, DropFeed
<1>2. spent' \in [imports : Nat, edits : Nat, restarts : Nat]
    BY <1>0, <1>1 DEF ImportType, Spend
<1>3. ASSUME NEW m \in ModeNames
      PROVE  \/ modes[m] = NoMode /\ modes'[m] = NoMode
             \/ /\ modes[m] # NoMode /\ modes'[m] \in ModeRows
                /\ modes'[m].num = modes[m].num
                /\ modes'[m].feeds \subseteq feeds'
  <2>1. modes[m] # NoMode =>
           modes[m] \in ModeRows /\ modes[m].feeds \subseteq feeds
    BY <1>0 DEF ImportType, TablesInv, Live
  <2>2. CASE \E k \in ModeNames : EditMode(k)
    <3>1. PICK k \in ModeNames : EditMode(k)
      BY <2>2
    <3>2. /\ modes' = [modes EXCEPT ![k].on = ~@] /\ modes[k] # NoMode
          /\ feeds' = feeds
      BY <3>1 DEF EditMode
    <3>3. CASE m = k
      <4>1. modes'[m] = [modes[m] EXCEPT !.on = ~@]
        BY <1>0, <3>2, <3>3 DEF ImportType
      <4>. QED
        BY <2>1, <3>2, <3>3, <4>1 DEF ModeRows
    <3>4. CASE m # k
      BY <1>0, <2>1, <3>2, <3>4 DEF ImportType
    <3>. QED
      BY <3>3, <3>4
  <2>3. CASE \E f \in FeedNames : DropFeed(f)
    <3>1. PICK f \in FeedNames : DropFeed(f)
      BY <2>3
    <3>2. /\ feeds' = feeds \ {f}
          /\ modes'[m] = IF modes[m] = NoMode THEN NoMode
                         ELSE [modes[m] EXCEPT !.feeds = @ \ {f}]
      BY <3>1 DEF DropFeed
    <3>. QED
      BY <2>1, <3>2 DEF ModeRows
  <2>. QED
    BY <2>2, <2>3
<1>4. modes' \in [ModeNames -> ModeRows \cup {NoMode}]
  <2>1. modes' = [m \in ModeNames |-> modes'[m]]
    BY <1>0 DEF EditMode, DropFeed, ImportType
  <2>. QED
    BY <1>3, <2>1
<1>5. ImportType'
    BY <1>0, <1>1, <1>2, <1>4 DEF ImportType
<1>6. TablesInv'
    BY <1>0, <1>1, <1>3 DEF TablesInv, Live
<1>7. NextName' = NextName
    BY <1>1 DEF NextName
<1>8. ServedInv'
    BY <1>0, <1>1, <1>7 DEF ServedInv
<1>. QED
    BY <1>5, <1>6, <1>8 DEF ImportInv

LEMMA NextImportInv == ImportInv /\ [ImportNext]_importVars => ImportInv'
<1> SUFFICES ASSUME ImportInv, [ImportNext]_importVars PROVE ImportInv'
    OBVIOUS
<1>0. ImportType /\ TablesInv /\ ServedInv
    BY DEF ImportInv
<1>1. CASE \E s \in Snapshots : PreviewImport(s)
  <2>1. PICK s \in Snapshots : PreviewImport(s)
    BY <1>1
  <2>2. /\ preview' = [of |-> s, onto |-> Snapshot]
        /\ UNCHANGED <<tables, tracked, todo, reread, clean, spent>>
    BY <2>1 DEF PreviewImport, Digest
  <2>3. preview'.of = s
    BY <2>2
  <2>4. NextName' = NextName
    BY <2>2 DEF NextName
  <2>. QED
    BY <1>0, <2>2, <2>3, <2>4
    DEF ImportInv, ImportType, TablesInv, ServedInv, tables, Live
<1>2. CASE \E s \in Confirmed : StaleImport(s) \/ FailedImport(s)
  <2>1. /\ preview' = NoPreview
        /\ UNCHANGED <<tables, tracked, todo, reread, clean, spent>>
    BY <1>2 DEF StaleImport, FailedImport
  <2>2. NextName' = NextName
    BY <2>1 DEF NextName
  <2>. QED
    BY <1>0, <2>1, <2>2
    DEF ImportInv, ImportType, TablesInv, ServedInv, tables, Live
<1>3. CASE \E s \in Confirmed : ApplyImport(s)
    BY <1>3, ApplyKeepsInv
<1>4. CASE SyncGone \/ SyncRead \/ SyncPeer
    BY <1>4, SyncKeepsInv
<1>5. CASE \E n \in Names :
              (\E u \in EditedRows : EditUser(n, u)) \/ DeleteUser(n)
    BY <1>5, EditKeepsInv
<1>6. CASE \/ \E m \in ModeNames : EditMode(m)
           \/ \E f \in FeedNames : DropFeed(f)
    BY <1>6, CatalogEditKeepsInv
<1>7. CASE RestartImport
  <2>1. /\ users' = users /\ modes' = modes /\ feeds' = feeds
        /\ tracked' = Wanted /\ todo' = {} /\ reread' = NoUser
        /\ clean' = TRUE /\ preview' = preview
        /\ Spend("restarts", MaxRestarts)
    BY <1>7 DEF RestartImport, tables
  <2>2. tracked' \in [Names -> Tracks \cup {NoUser}]
    BY <1>0, <2>1, PeerOfType DEF Wanted, ImportType
  <2>3. spent' \in [imports : Nat, edits : Nat, restarts : Nat]
    BY <1>0, <2>1 DEF ImportType, Spend
  <2>4. ImportType' /\ TablesInv'
    BY <1>0, <2>1, <2>2, <2>3 DEF ImportType, TablesInv, Live
  <2>5. ServedInv'
    BY <2>1 DEF ServedInv, Wanted
  <2>. QED
    BY <2>4, <2>5 DEF ImportInv
<1>8. CASE UNCHANGED importVars
  <2>1. UNCHANGED <<tables, tracked, preview, todo, reread, clean, spent>>
    BY <1>8 DEF importVars
  <2>2. NextName' = NextName
    BY <2>1 DEF NextName
  <2>. QED
    BY <1>0, <2>1, <2>2
    DEF ImportInv, ImportType, TablesInv, ServedInv, tables, Live
<1>. QED
    BY <1>1, <1>2, <1>3, <1>4, <1>5, <1>6, <1>7, <1>8 DEF ImportNext

----------------------------------------------------------------------------
(* The theorems *)

\* Whatever has been imported, edited and confirmed, the tables satisfy their
\* indexes.  (config_snapshot.go, ApplyConfigSnapshot)
THEOREM ImportInvariant == ImportSpec => []ImportInv
<1>1. ImportInit => ImportInv
    BY InitImportInv
<1>2. ImportInv /\ [ImportNext]_importVars => ImportInv'
    BY NextImportInv
<1>. QED
    BY <1>1, <1>2, PTL DEF ImportSpec

\* An import is accepted exactly if its result is valid, whatever the order in
\* which users get out of each other's way and services exchange numbers, and
\* nobody is left on a placeholder.  (config_snapshot.go, ApplyConfigSnapshot)
THEOREM AnyOrderImports == ImportSpec => []OrderIsIrrelevant
<1>1. ImportInv => OrderIsIrrelevant
  <2> SUFFICES ASSUME ImportInv, preview # NoPreview
               PROVE  LET s == preview.of
                      IN  /\ Accepted(s) <=> ValidResult(s)
                          /\ Accepted(s) =>
                                /\ Draft(s).users = FinalUsers(s)
                                /\ \A m \in DOMAIN s.modes : \A p \in Pairs :
                                      ModesWritten(s)[m].num[p]
                                        = FinalNumber(s, m, p)
    BY DEF OrderIsIrrelevant
  <2> DEFINE s == preview.of
  <2>1. s \in Snapshots /\ ImportType /\ TablesInv
    BY DEF ImportInv, ImportType
  <2> HIDE DEF s
  <2>2. /\ Accepted(s) <=> ValidResult(s)
        /\ Draft(s).users = FinalUsers(s)
        /\ \A m \in DOMAIN s.modes : \A p \in Pairs :
              ModesWritten(s)[m].num[p] = FinalNumber(s, m, p)
    BY <2>1, AcceptedIsValid
  <2>. QED
    BY <2>2 DEF s
<1>. QED
    BY <1>1, ImportInvariant, PTL

\* When the calls that follow an import are through, the BGP manager has every
\* user as the database has him, unless it refused one or another
\* administrator came in between.
\* (handlers_api_config.go, syncBGPAfterConfigImport)
THEOREM SyncServes == ImportSpec => []CleanImportIsServed
<1>1. ImportInv => CleanImportIsServed
  <2> SUFFICES ASSUME ImportInv, todo = {}, clean PROVE tracked = Wanted
    BY DEF CleanImportIsServed
  <2>1. /\ tracked \in [Names -> Tracks \cup {NoUser}]
        /\ \A n \in Names : tracked[n] = PeerOf(users[n])
    BY DEF ImportInv, ImportType, ServedInv
  <2>. QED
    BY <2>1 DEF Wanted
<1>. QED
    BY <1>1, ImportInvariant, PTL

\* What an import leaves of a user who was there.
LEMMA ImportedUser ==
    ASSUME NEW s \in Snapshots, ImportType, NEW n \in Names
    PROVE  /\ FinalUser(s, n) # users[n] =>
                 n \in Shown(Snapshot.users, s.users)
           /\ users[n] # NoUser =>
                 /\ FinalUser(s, n) # NoUser
                 /\ FinalUser(s, n).key = users[n].key
           /\ Resolved(s, n) =>
                 Exported(FinalUser(s, n))
                   = [s.users[n] EXCEPT !.secret = FinalUser(s, n).key # NoKey]
<1> DEFINE new == FinalUser(s, n)
<1>1. new \in Rows \cup {NoUser} /\ (Resolved(s, n) => new \in Rows)
    BY FinalRow DEF ImportType
<1>2. CASE ~Resolved(s, n)
    BY <1>2 DEF FinalUser
<1>3. CASE Resolved(s, n)
  <2>1. /\ n \in DOMAIN s.users /\ s.users[n] \in SentRows
        /\ users[n] \in Rows \cup {NoUser}
    BY <1>3, SnapshotFacts DEF Resolved, ImportType
  <2>2. new = [peer |-> s.users[n].peer, mode |-> s.users[n].mode,
               nets |-> s.users[n].nets, on |-> s.users[n].on,
               auth |-> s.users[n].auth,
               key |-> IF users[n] = NoUser THEN NoKey ELSE users[n].key]
    BY <1>3 DEF FinalUser
  <2>3. new # NoUser
    BY <1>1, <1>3, ImportAssumption
  <2>4. users[n] # NoUser => new.key = users[n].key
    BY <2>2
  <2>5. Exported(new) = [s.users[n] EXCEPT !.secret = new.key # NoKey]
    BY <2>1, <2>2 DEF Exported, SentRows
  <2>6. Snapshot.users = [o \in Present(users) |-> Exported(users[o])]
    BY DEF Snapshot
  <2>7. ASSUME n \notin Shown(Snapshot.users, s.users) PROVE new = users[n]
    <3>1. /\ n \in DOMAIN Snapshot.users
          /\ Snapshot.users[n] = s.users[n]
      BY <2>1, <2>7 DEF Shown, Diff
    <3>2. n \in Present(users) /\ Exported(users[n]) = s.users[n]
      BY <2>6, <3>1
    <3>3. users[n] # NoUser /\ users[n] \in Rows
      BY <2>1, <3>2 DEF Present
    <3>4. /\ s.users[n].peer = users[n].peer /\ s.users[n].mode = users[n].mode
          /\ s.users[n].nets = users[n].nets /\ s.users[n].on = users[n].on
          /\ s.users[n].auth = users[n].auth
      BY <3>2 DEF Exported
    <3>. QED
      BY <2>2, <3>3, <3>4 DEF Rows
  <2>. QED
    BY <1>3, <2>3, <2>4, <2>5, <2>7
<1>. QED
    BY <1>2, <1>3

\* What an import leaves of a mode.
LEMMA ImportedMode ==
    ASSUME NEW s \in Snapshots, ImportType, TablesInv, NEW m \in ModeNames,
           ModesWritten(s)[m] # modes[m]
    PROVE  m \in Shown(Snapshot.modes, s.modes)
<1>1. m \in DOMAIN s.modes
    BY DEF ModesWritten
<1>2. SUFFICES ASSUME m \notin Shown(Snapshot.modes, s.modes) PROVE FALSE
    OBVIOUS
<1> DEFINE num == [p \in Pairs |-> FinalNumber(s, m, p)]
<1>3. ModesWritten(s)[m] = [on |-> s.modes[m].on,
                            feeds |-> s.modes[m].feeds \cap feeds, num |-> num]
    BY <1>1, ModeFacts
<1>4. m \in DOMAIN Snapshot.modes /\ Snapshot.modes[m] = s.modes[m]
    BY <1>1, <1>2 DEF Shown, Diff
<1>5. Snapshot.modes = [k \in Live(modes) |->
                          [on |-> modes[k].on, feeds |-> modes[k].feeds,
                           num |-> Numbers(modes[k].num)]]
    BY DEF Snapshot
<1>6. /\ m \in Live(modes)
      /\ s.modes[m] = [on |-> modes[m].on, feeds |-> modes[m].feeds,
                       num |-> Numbers(modes[m].num)]
    BY <1>4, <1>5
<1>7. modes[m] \in ModeRows /\ modes[m].feeds \subseteq feeds
    BY <1>6 DEF ImportType, TablesInv, Live
<1>8. /\ s.modes[m].on = modes[m].on /\ s.modes[m].feeds = modes[m].feeds
      /\ s.modes[m].num = Numbers(modes[m].num)
    BY <1>6
<1>9. num = modes[m].num
  <2>1. modes[m].num \in [Pairs -> Nat] /\ OldNumbers(m) = modes[m].num
    BY <1>6, <1>7 DEF ModeRows, OldNumbers, Live
  <2>2. \A p \in Pairs : FinalNumber(s, m, p) = modes[m].num[p]
    BY <1>8, <2>1 DEF FinalNumber, Numbers
  <2>. QED
    BY <2>1, <2>2
<1>10. ModesWritten(s)[m] = modes[m]
  <2> HIDE DEF num
  <2>1. s.modes[m].feeds \cap feeds = modes[m].feeds
    BY <1>7, <1>8
  <2>. QED
    BY <1>3, <1>7, <1>8, <1>9, <2>1 DEF ModeRows
<1>. QED
    BY <1>10

\* An import starts from the configuration the administrator was shown,
\* changes no user and no mode that the difference does not name, deletes
\* nobody and changes no password.
\* (config_snapshot.go, ApplyConfigSnapshot; handlers_api_config.go)
THEOREM ImportIsAsConfirmed == ImportSpec => ConfirmedIsApplied
<1> DEFINE A == spent'.imports > spent.imports =>
         LET s == preview.of
         IN  /\ preview.onto = Snapshot
             /\ \A n \in Names :
                   /\ users'[n] # users[n] =>
                        n \in Shown(preview.onto.users, s.users)
                   /\ users[n] # NoUser =>
                        users'[n] # NoUser /\ users'[n].key = users[n].key
             /\ \A n \in Affected(s) :
                   Exported(users'[n])
                     = [s.users[n] EXCEPT !.secret = users'[n].key # NoKey]
             /\ \A m \in ModeNames : modes'[m] # modes[m] =>
                   m \in Shown(preview.onto.modes, s.modes)
<1>1. ImportInv /\ [ImportNext]_importVars => A
  <2> SUFFICES ASSUME ImportInv, [ImportNext]_importVars PROVE A
    OBVIOUS
  <2>0. ImportType /\ TablesInv
    BY DEF ImportInv
  <2>1. CASE \E s \in Confirmed : ApplyImport(s)
    <3>1. PICK s \in Confirmed : ApplyImport(s)
      BY <2>1
    <3>2. s = preview.of /\ s \in Snapshots /\ preview.onto = Snapshot
      BY <2>0, <3>1, ImportedIsShown
    <3>3. users' = FinalUsers(s) /\ modes' = ModesWritten(s)
      BY <2>0, <3>1, <3>2, AcceptedIsValid DEF ApplyImport
    <3>4. ASSUME NEW n \in Names
          PROVE  /\ users'[n] # users[n] =>
                       n \in Shown(preview.onto.users, s.users)
                 /\ users[n] # NoUser =>
                       users'[n] # NoUser /\ users'[n].key = users[n].key
                 /\ n \in Affected(s) =>
                       Exported(users'[n])
                         = [s.users[n] EXCEPT !.secret = users'[n].key # NoKey]
      <4>1. users'[n] = FinalUser(s, n)
        BY <3>3 DEF FinalUsers
      <4>2. n \in Affected(s) => Resolved(s, n)
        BY DEF Affected
      <4>. QED
        BY <2>0, <3>2, <4>1, <4>2, ImportedUser
    <3>5. ASSUME NEW m \in ModeNames, modes'[m] # modes[m]
          PROVE  m \in Shown(preview.onto.modes, s.modes)
      BY <2>0, <3>2, <3>3, <3>5, ImportedMode
    <3>6. Affected(s) \subseteq Names
      BY DEF Affected
    <3>. QED
      BY <3>2, <3>4, <3>5, <3>6
  <2>2. CASE ~\E s \in Confirmed : ApplyImport(s)
    <3>1. \/ spent' = spent
          \/ Spend("edits", MaxEdits) \/ Spend("restarts", MaxRestarts)
      BY <2>2 DEF ImportNext, PreviewImport, StaleImport, FailedImport, SyncGone,
         SyncRead, SyncPeer, EditUser, DeleteUser, EditMode, DropFeed,
         RestartImport, importVars
    <3>2. spent'.imports = spent.imports /\ spent.imports \in Nat
      BY <2>0, <3>1 DEF ImportType, Spend
    <3>. QED
      BY <3>2
  <2>. QED
    BY <2>1, <2>2
<1>2. ImportSpec => [][A]_importVars
  <2> HIDE DEF A
  <2>. QED
    BY <1>1, ImportInvariant, PTL DEF ImportSpec
<1>. QED
    BY <1>2 DEF ConfirmedIsApplied

=============================================================================
