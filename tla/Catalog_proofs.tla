---------------------------- MODULE Catalog_proofs ----------------------------
(***************************************************************************)
(* Proofs about Catalog, for any modes, feeds, services, users and         *)
(* selections, and for any lists and batches of community numbers.         *)
(***************************************************************************)
EXTENDS Catalog, FiniteSetTheorems, WellFoundedInduction, TLAPS

----------------------------------------------------------------------------
(* The inductive invariant *)

FeedRows == [on : BOOLEAN, offers : [Services -> SUBSET Addresses]]
Person == [mode : Modes, on : BOOLEAN]

\* The tables hold what their columns allow.
CatalogShape ==
    /\ modeIs \in [Modes -> {"none", "off", "on"}]
    /\ feedRow \in [Feeds -> FeedRows \cup {NoFeedRow}]
    /\ link \in [Modes -> LinkSets]
    /\ DOMAIN merged = Modes /\ DOMAIN number = Modes
    /\ person \in [People -> Person]
    /\ picked \in [People -> [Modes -> SUBSET Keys]]

\* The stored entries of every mode are the merge of its feeds.
MergeInv == \A m \in Modes : merged[m] = Merged(feedRow, link, m)

\* The modes users of a deleted one go to stay.
BuiltInInv == \A m \in BuiltIn : Exists(m)

CatalogInv == CatalogShape /\ MergeInv /\ BuiltInInv /\ GoneModesAreEmpty

----------------------------------------------------------------------------
(* The tables keep their shape *)

\* The row of a new feed is a row.
LEMMA NewRowIsRow == NewRow \in FeedRows
  BY DEF NewRow, Empty, FeedRows

\* Rebuilding some modes keeps the entries of all modes.
LEMMA RebuildShape ==
    ASSUME NEW fs, NEW ls, NEW ms
    PROVE  DOMAIN Rebuild(fs, ls, ms) = Modes
  BY DEF Rebuild

\* Modes (store/modes.go).
LEMMA ModeShape ==
    ASSUME CatalogShape, NEW m \in Modes,
           \/ \E on \in {"on", "off"} : CreateMode(m, on) \/ UpdateMode(m, on)
           \/ \E ls \in LinkSets : SetModeFeeds(m, ls)
           \/ \E on \in {"on", "off"}, ls \in LinkSets : SaveMode(m, on, ls)
           \/ DeleteMode(m)
    PROVE  CatalogShape'
  <1>1. CASE \E on \in {"on", "off"} : CreateMode(m, on) \/ UpdateMode(m, on)
    BY <1>1 DEF CatalogShape, CreateMode, UpdateMode
  <1>2. CASE \E ls \in LinkSets : SetModeFeeds(m, ls)
    BY <1>2, RebuildShape DEF CatalogShape, SetModeFeeds, ReplaceModeFeeds
  <1>3. CASE \E on \in {"on", "off"}, ls \in LinkSets : SaveMode(m, on, ls)
    BY <1>3, RebuildShape
       DEF CatalogShape, SaveMode, SaveModeWithFeeds, ReplaceModeFeeds
  <1>4. CASE DeleteMode(m)
    <2>1. [f \in Feeds |-> "none"] \in LinkSets
      BY DEF LinkSets
    <2>2. person' \in [People -> Person]
      <3>1. Fallback \in Modes
        BY CatalogAssumption
      <3>2. ASSUME NEW u \in People
            PROVE  (IF person[u].mode = m
                    THEN [person[u] EXCEPT !.mode = Fallback]
                    ELSE person[u]) \in Person
        <4>1. person[u] \in Person
          BY DEF CatalogShape
        <4> QED
          BY <3>1, <4>1 DEF Person
      <3> QED
        BY <1>4, <3>2 DEF DeleteMode, UsersMoved
    <2>3. picked' \in [People -> [Modes -> SUBSET Keys]]
      BY <1>4 DEF CatalogShape, DeleteMode
    <2> QED
      BY <1>4, <2>1, <2>2, <2>3 DEF CatalogShape, DeleteMode
  <1> QED
    BY <1>1, <1>2, <1>3, <1>4

\* Feeds (store/feeds.go).
LEMMA FeedShape ==
    ASSUME CatalogShape, NEW f \in Feeds,
           \/ \E m \in Modes : CreateFeed(f, m)
           \/ \E offers \in Offers[f] : SyncFeed(f, offers)
           \/ EnableFeed(f) \/ DeleteFeed(f)
    PROVE  CatalogShape'
  <1>1. CASE \E m \in Modes : CreateFeed(f, m)
    <2>1. PICK m \in Modes : CreateFeed(f, m)
      BY <1>1
    <2>2. link' \in [Modes -> LinkSets]
      BY <2>1 DEF CatalogShape, CreateFeed, LinkSets
    <2> QED
      BY <2>1, <2>2, NewRowIsRow DEF CatalogShape, CreateFeed
  <1>2. ASSUME NEW row \in FeedRows, SetFeed(f, row)
        PROVE  CatalogShape'
    BY <1>2, RebuildShape DEF CatalogShape, SetFeed, RebuildFor
  <1>3. CASE \E offers \in Offers[f] : SyncFeed(f, offers)
    <2>1. PICK offers \in Offers[f] : SyncFeed(f, offers)
      BY <1>3
    <2>2. offers \in [Services -> SUBSET Addresses]
      <3>1. Offers[f] \subseteq [Services -> SUBSET Addresses]
        BY CatalogData
      <3> QED
        BY <3>1
    <2>3. [feedRow[f] EXCEPT !.offers = offers] \in FeedRows
      BY <2>1, <2>2 DEF SyncFeed, CatalogShape, FeedRows
    <2> QED
      BY <1>2, <2>1, <2>3 DEF SyncFeed
  <1>4. CASE EnableFeed(f)
    <2>1. [feedRow[f] EXCEPT !.on = ~@] \in FeedRows
      <3>1. feedRow[f] \in FeedRows
        BY <1>4 DEF EnableFeed, CatalogShape
      <3>2. (~feedRow[f].on) \in BOOLEAN
        OBVIOUS
      <3> QED
        BY <3>1, <3>2 DEF FeedRows
    <2> QED
      BY <1>2, <1>4, <2>1 DEF EnableFeed
  <1>5. CASE DeleteFeed(f)
    <2>1. link' \in [Modes -> LinkSets]
      BY <1>5 DEF CatalogShape, DeleteFeed, LinkSets
    <2>2. picked' \in [People -> [Modes -> SUBSET Keys]]
      BY <1>5 DEF CatalogShape, DeleteFeed
    <2>3. DOMAIN merged' = Modes
      BY <1>5, RebuildShape DEF DeleteFeed
    <2> QED
      BY <1>5, <2>1, <2>2, <2>3 DEF CatalogShape, DeleteFeed
  <1> QED
    BY <1>1, <1>3, <1>4, <1>5

\* Users (store/users.go).
LEMMA UserShape ==
    ASSUME CatalogShape, NEW u \in People, NEW m \in Modes,
           \/ \E k \in Keys : SaveOwn(u, m, k) \/ SaveFor(u, m, k)
           \/ \E on \in BOOLEAN : EditUser(u, on, m)
           \/ SwitchMode(u, m)
    PROVE  CatalogShape'
  <1>1. ASSUME NEW k \in Keys, Toggled(u, m, k)
        PROVE  picked' \in [People -> [Modes -> SUBSET Keys]]
    <2>1. \A s \in SUBSET Keys :
             (IF k \in s THEN s \ {k} ELSE s \cup {k}) \in SUBSET Keys
      OBVIOUS
    <2> QED
      BY <1>1, <2>1 DEF Toggled, CatalogShape
  <1>2. CASE \E k \in Keys : SaveOwn(u, m, k)
    BY <1>1, <1>2 DEF SaveOwn, Toggled, CatalogShape
  <1>3. CASE \E k \in Keys : SaveFor(u, m, k)
    <2>1. person' \in [People -> Person]
      BY <1>3 DEF SaveFor, CatalogShape, Person
    <2> QED
      BY <1>1, <1>3, <2>1 DEF SaveFor, Toggled, CatalogShape
  <1>4. CASE \E on \in BOOLEAN : EditUser(u, on, m)
    BY <1>4 DEF EditUser, Edited, CatalogShape, Person
  <1>5. CASE SwitchMode(u, m)
    BY <1>5 DEF SwitchMode, CatalogShape, Person
  <1> QED
    BY <1>2, <1>3, <1>4, <1>5

\* Whatever is done to numbers (store/communities.go) leaves everything else,
\* and modes that are gone, alone.
LEMMA NumberFrame ==
    ASSUME CatalogShape,
           \/ \E m \in Modes : \/ GenerateMode(m)
                               \/ \E batch \in Batches : SetNumbers(m, batch)
                               \/ ShowPreview(m)
                               \/ ResetNumbers(m)
           \/ GenerateAll
           \/ Export
    PROVE  /\ UNCHANGED <<modeIs, feedRow, link, merged, person, picked>>
           /\ DOMAIN number' = Modes
           /\ \A n \in Modes : ~Exists(n) => number'[n] = number[n]
  <1>1. ASSUME NEW m \in Modes, NEW num, Exists(m), NumbersSet(m, num)
        PROVE  /\ UNCHANGED <<modeIs, feedRow, link, merged, person, picked>>
               /\ DOMAIN number' = Modes
               /\ \A n \in Modes : ~Exists(n) => number'[n] = number[n]
    BY <1>1 DEF NumbersSet, CatalogShape
  <1>2. ASSUME NEW m \in Modes, GenerateMode(m)
        PROVE  Exists(m) /\ NumbersSet(m, Fill(m))
    BY <1>2 DEF GenerateMode
  <1>3. ASSUME NEW m \in Modes, NEW batch, SetNumbers(m, batch)
        PROVE  /\ Exists(m)
               /\ NumbersSet(m, Generated(Applied(number[m], batch), Numbered(m)))
    BY <1>3 DEF SetNumbers
  <1>4. ASSUME NEW m \in Modes, ResetNumbers(m)
        PROVE  /\ Exists(m)
               /\ NumbersSet(m, Fresh(m)) \/ UNCHANGED catalogTables
    BY <1>4 DEF ResetNumbers
  <1>5. ASSUME NEW m \in Modes, ShowPreview(m)
        PROVE  UNCHANGED catalogTables
    BY <1>5 DEF ShowPreview
  <1>6. ASSUME UNCHANGED catalogTables
        PROVE  /\ UNCHANGED <<modeIs, feedRow, link, merged, person, picked>>
               /\ DOMAIN number' = Modes
               /\ \A n \in Modes : ~Exists(n) => number'[n] = number[n]
    BY <1>6 DEF catalogTables, CatalogShape
  <1>7. ASSUME GenerateAll \/ Export
        PROVE  /\ UNCHANGED <<modeIs, feedRow, link, merged, person, picked>>
               /\ DOMAIN number' = Modes
               /\ \A n \in Modes : ~Exists(n) => number'[n] = number[n]
    BY <1>7 DEF GenerateAll, GeneratedAll, Export, Snapshot
  <1> QED
    BY <1>1, <1>2, <1>3, <1>4, <1>5, <1>6, <1>7

\* Every step keeps the shape of the tables.
LEMMA ShapeStep ==
    ASSUME CatalogShape, CatalogNext
    PROVE  CatalogShape'
  <1>1. CASE \E m \in Modes :
                \/ \E on \in {"on", "off"} : CreateMode(m, on) \/ UpdateMode(m, on)
                \/ \E ls \in LinkSets : SetModeFeeds(m, ls)
                \/ \E on \in {"on", "off"}, ls \in LinkSets : SaveMode(m, on, ls)
                \/ DeleteMode(m)
    BY <1>1, ModeShape
  <1>2. CASE \E f \in Feeds : \/ \E m \in Modes : CreateFeed(f, m)
                              \/ \E offers \in Offers[f] : SyncFeed(f, offers)
                              \/ EnableFeed(f) \/ DeleteFeed(f)
    BY <1>2, FeedShape
  <1>3. CASE \E u \in People, m \in Modes :
                \/ \E k \in Keys : SaveOwn(u, m, k) \/ SaveFor(u, m, k)
                \/ \E on \in BOOLEAN : EditUser(u, on, m)
                \/ SwitchMode(u, m)
    BY <1>3, UserShape
  <1>4. CASE \/ \E m \in Modes : \/ GenerateMode(m)
                                 \/ \E batch \in Batches : SetNumbers(m, batch)
                                 \/ ShowPreview(m)
                                 \/ ResetNumbers(m)
             \/ GenerateAll
             \/ Export
    BY <1>4, NumberFrame DEF CatalogShape
  <1> QED
    BY <1>1, <1>2, <1>3, <1>4 DEF CatalogNext

----------------------------------------------------------------------------
(* The merge *)

\* Who may be in the merge of a mode, one address at a time.
LEMMA InMerged ==
    ASSUME NEW fs, NEW ls, NEW m, NEW s \in Services, NEW a
    PROVE  a \in Merged(fs, ls, m)[s] <=>
              /\ \E f \in InUse(fs, ls, m, "include") : a \in fs[f].offers[s]
              /\ \A f \in InUse(fs, ls, m, "exclude") :
                    \A t \in DOMAIN fs[f].offers : a \notin fs[f].offers[t]
  <1>1. Merged(fs, ls, m)[s] =
           (UNION {fs[f].offers[s] : f \in InUse(fs, ls, m, "include")})
             \ Excluded(fs, ls, m)
    BY DEF Merged
  <1>2. a \in Excluded(fs, ls, m) <=>
           \E f \in InUse(fs, ls, m, "exclude") :
              \E t \in DOMAIN fs[f].offers : a \in fs[f].offers[t]
    BY DEF Excluded, Range
  <1> QED
    BY <1>1, <1>2

\* Feeds that are not in use, before or after, do not matter to the merge.
LEMMA SameMerge ==
    ASSUME NEW fs, NEW gs, NEW ls, NEW ks, NEW m,
           \A f \in Feeds :
              \/ ls[m][f] = ks[m][f] /\ fs[f] = gs[f]
              \/ ls[m][f] = "none" /\ ks[m][f] = "none"
    PROVE  Merged(fs, ls, m) = Merged(gs, ks, m)
  <1>1. ASSUME NEW how \in {"include", "exclude"}
        PROVE  /\ InUse(fs, ls, m, how) = InUse(gs, ks, m, how)
               /\ \A f \in InUse(fs, ls, m, how) : fs[f] = gs[f]
    BY <1>1 DEF InUse, Linked
  <1>2. ASSUME NEW s \in Services
        PROVE  Merged(fs, ls, m)[s] = Merged(gs, ks, m)[s]
    <2>1. \A a : a \in Merged(fs, ls, m)[s] <=> a \in Merged(gs, ks, m)[s]
      BY <1>1, InMerged
    <2> QED
      BY <2>1
  <1>3. /\ Merged(fs, ls, m) = [s \in Services |-> Merged(fs, ls, m)[s]]
        /\ Merged(gs, ks, m) = [s \in Services |-> Merged(gs, ks, m)[s]]
    BY DEF Merged
  <1> QED
    BY <1>2, <1>3

\* Neither does a feed that has been created and offers nothing yet.
LEMMA NewFeedMerge ==
    ASSUME NEW fs, NEW gs, NEW ls, NEW ks, NEW m, NEW f \in Feeds,
           fs[f] = NoFeedRow, gs[f] = NewRow,
           \A g \in Feeds : g # f => gs[g] = fs[g] /\ ls[m][g] = ks[m][g]
    PROVE  Merged(fs, ls, m) = Merged(gs, ks, m)
  <1>1. /\ \A g \in Feeds : g # f => gs[g] = fs[g]
        /\ gs[f] = NewRow
    OBVIOUS
  <1>2. ASSUME NEW how \in {"include", "exclude"}
        PROVE  /\ InUse(fs, ls, m, how) \subseteq InUse(gs, ks, m, how)
               /\ InUse(gs, ks, m, how) \subseteq InUse(fs, ls, m, how) \cup {f}
               /\ f \notin InUse(fs, ls, m, how)
    BY <1>1, <1>2 DEF InUse, Linked
  <1>3. \A s \in Services : NewRow.offers[s] = {}
    BY DEF NewRow, Empty
  <1>4. DOMAIN NewRow.offers = Services
    BY DEF NewRow, Empty
  <1>5. ASSUME NEW s \in Services
        PROVE  Merged(fs, ls, m)[s] = Merged(gs, ks, m)[s]
    <2>1. ASSUME NEW a
          PROVE  a \in Merged(fs, ls, m)[s] <=> a \in Merged(gs, ks, m)[s]
      <3>1. (\E g \in InUse(fs, ls, m, "include") : a \in fs[g].offers[s])
            <=> (\E g \in InUse(gs, ks, m, "include") : a \in gs[g].offers[s])
        BY <1>1, <1>2, <1>3 DEF InUse, Linked
      <3>2. (\A g \in InUse(fs, ls, m, "exclude") :
                \A t \in DOMAIN fs[g].offers : a \notin fs[g].offers[t])
            <=> (\A g \in InUse(gs, ks, m, "exclude") :
                    \A t \in DOMAIN gs[g].offers : a \notin gs[g].offers[t])
        BY <1>1, <1>2, <1>3, <1>4 DEF InUse, Linked
      <3> QED
        BY <3>1, <3>2, InMerged
    <2> QED
      BY <2>1
  <1>6. /\ Merged(fs, ls, m) = [s \in Services |-> Merged(fs, ls, m)[s]]
        /\ Merged(gs, ks, m) = [s \in Services |-> Merged(gs, ks, m)[s]]
    BY DEF Merged
  <1> QED
    BY <1>5, <1>6

\* What is rebuilt is the merge, and what is not has to be it still.
LEMMA RebuiltMerge ==
    ASSUME MergeInv, NEW fs, NEW ls, NEW ms \in SUBSET Modes,
           \A m \in Modes \ ms : Merged(fs, ls, m) = Merged(feedRow, link, m)
    PROVE  \A m \in Modes : Rebuild(fs, ls, ms)[m] = Merged(fs, ls, m)
  BY DEF MergeInv, Rebuild

\* Every transaction that changes a feed, a link or the entries leaves the
\* merge right (rebuildModeEntriesTx and its callers).
LEMMA MergeStep ==
    ASSUME CatalogShape, MergeInv, CatalogNext
    PROVE  MergeInv'
  <1>1. ASSUME UNCHANGED <<feedRow, link, merged>>
        PROVE  MergeInv'
    BY <1>1 DEF MergeInv
  <1>2. ASSUME NEW m \in Modes, NEW ls \in LinkSets, ReplaceModeFeeds(m, ls),
               UNCHANGED feedRow
        PROVE  MergeInv'
    <2>1. link' = [link EXCEPT ![m] = ls] /\ merged' = Rebuild(feedRow, link', {m})
      BY <1>2 DEF ReplaceModeFeeds
    <2>2. ASSUME NEW n \in Modes \ {m}
          PROVE  Merged(feedRow, link', n) = Merged(feedRow, link, n)
      <3>1. link'[n] = link[n]
        BY <2>1 DEF CatalogShape
      <3> QED
        BY <3>1, SameMerge
    <2> QED
      BY <1>2, <2>1, <2>2, RebuiltMerge DEF MergeInv
  <1>3. ASSUME NEW m \in Modes, DeleteMode(m)
        PROVE  MergeInv'
    <2>1. /\ link' = [link EXCEPT ![m] = [f \in Feeds |-> "none"]]
          /\ merged' = [merged EXCEPT ![m] = Empty]
          /\ feedRow' = feedRow
      BY <1>3 DEF DeleteMode
    <2>2. ASSUME NEW n \in Modes, n # m
          PROVE  merged'[n] = Merged(feedRow, link', n)
      <3>1. link'[n] = link[n] /\ merged'[n] = merged[n]
        BY <2>1, <2>2 DEF CatalogShape
      <3>2. Merged(feedRow, link', n) = Merged(feedRow, link, n)
        BY <3>1, SameMerge
      <3> QED
        BY <3>1, <3>2 DEF MergeInv
    <2>3. merged'[m] = Merged(feedRow, link', m)
      <3>1. InUse(feedRow, link', m, "include") = {}
        BY <2>1 DEF InUse, Linked, CatalogShape
      <3>2. \A s \in Services : Merged(feedRow, link', m)[s] = {}
        BY <3>1, InMerged
      <3>3. Merged(feedRow, link', m) =
               [s \in Services |-> Merged(feedRow, link', m)[s]]
        BY DEF Merged
      <3>4. merged'[m] = Empty
        BY <2>1 DEF CatalogShape
      <3> QED
        BY <3>2, <3>3, <3>4 DEF Empty
    <2> QED
      BY <2>1, <2>2, <2>3 DEF MergeInv
  <1>4. ASSUME NEW f \in Feeds, NEW m \in Modes, CreateFeed(f, m)
        PROVE  MergeInv'
    <2>1. /\ feedRow[f] = NoFeedRow /\ f \in DOMAIN feedRow
          /\ feedRow' = [feedRow EXCEPT ![f] = NewRow]
          /\ \A n \in Modes : \A g \in Feeds : g # f => link[n][g] = link'[n][g]
          /\ merged' = merged
      BY <1>4 DEF CreateFeed, CatalogShape, LinkSets
    <2>2. ASSUME NEW n \in Modes
          PROVE  Merged(feedRow, link, n) = Merged(feedRow', link', n)
      <3>1. /\ feedRow[f] = NoFeedRow /\ feedRow'[f] = NewRow
            /\ \A g \in Feeds : g # f =>
                  feedRow'[g] = feedRow[g] /\ link[n][g] = link'[n][g]
        BY <2>1 DEF CatalogShape
      <3> QED
        BY <3>1, NewFeedMerge
    <2> QED
      BY <2>1, <2>2 DEF MergeInv
  <1>5. ASSUME NEW f \in Feeds, NEW row, SetFeed(f, row)
        PROVE  MergeInv'
    <2>1. /\ feedRow' = [feedRow EXCEPT ![f] = row] /\ link' = link
          /\ merged' = Rebuild(feedRow', link, {m \in Modes : link[m][f] # "none"})
      BY <1>5 DEF SetFeed, RebuildFor
    <2>2. ASSUME NEW n \in Modes, link[n][f] = "none"
          PROVE  Merged(feedRow', link, n) = Merged(feedRow, link, n)
      <3>1. \A g \in Feeds : g = f \/ feedRow'[g] = feedRow[g]
        BY <2>1 DEF CatalogShape
      <3> QED
        BY <2>2, <3>1, SameMerge
    <2> QED
      BY <2>1, <2>2, RebuiltMerge DEF MergeInv
  <1>6. ASSUME NEW f \in Feeds, DeleteFeed(f)
        PROVE  MergeInv'
    <2>1. /\ feedRow' = [feedRow EXCEPT ![f] = NoFeedRow]
          /\ link' = [m \in Modes |-> [link[m] EXCEPT ![f] = "none"]]
          /\ merged' = Rebuild(feedRow', link', {m \in Modes : link[m][f] # "none"})
      BY <1>6 DEF DeleteFeed
    <2>2. ASSUME NEW n \in Modes, link[n][f] = "none"
          PROVE  Merged(feedRow', link', n) = Merged(feedRow, link, n)
      <3>1. ASSUME NEW g \in Feeds, g # f
            PROVE  feedRow'[g] = feedRow[g] /\ link'[n][g] = link[n][g]
        BY <2>1, <3>1 DEF CatalogShape, LinkSets
      <3>2. link'[n][f] = "none"
        BY <2>1 DEF CatalogShape, LinkSets
      <3> QED
        BY <2>2, <3>1, <3>2, SameMerge
    <2> QED
      BY <2>1, <2>2, RebuiltMerge DEF MergeInv
  <1>7. ASSUME NEW m \in Modes,
               \/ \E on \in {"on", "off"} : CreateMode(m, on) \/ UpdateMode(m, on)
               \/ \E ls \in LinkSets : SetModeFeeds(m, ls)
               \/ \E on \in {"on", "off"}, ls \in LinkSets : SaveMode(m, on, ls)
               \/ DeleteMode(m)
        PROVE  MergeInv'
    BY <1>1, <1>2, <1>3, <1>7
       DEF CreateMode, UpdateMode, SetModeFeeds, SaveMode, SaveModeWithFeeds
  <1>8. ASSUME NEW f \in Feeds,
               \/ \E m \in Modes : CreateFeed(f, m)
               \/ \E offers \in Offers[f] : SyncFeed(f, offers)
               \/ EnableFeed(f) \/ DeleteFeed(f)
        PROVE  MergeInv'
    BY <1>4, <1>5, <1>6, <1>8 DEF SyncFeed, EnableFeed
  <1>9. ASSUME NEW u \in People, NEW m \in Modes,
               \/ \E k \in Keys : SaveOwn(u, m, k) \/ SaveFor(u, m, k)
               \/ \E on \in BOOLEAN : EditUser(u, on, m)
               \/ SwitchMode(u, m)
        PROVE  MergeInv'
    BY <1>1, <1>9 DEF SaveOwn, SaveFor, Toggled, EditUser, SwitchMode
  <1>10. CASE \/ \E m \in Modes : \/ GenerateMode(m)
                                  \/ \E batch \in Batches : SetNumbers(m, batch)
                                  \/ ShowPreview(m)
                                  \/ ResetNumbers(m)
              \/ GenerateAll
              \/ Export
    BY <1>1, <1>10, NumberFrame
  <1> QED
    BY <1>7, <1>8, <1>9, <1>10 DEF CatalogNext

----------------------------------------------------------------------------
(* Modes that are gone *)

\* Nothing enters a mode that is gone, and a mode that goes is emptied
\* (DeleteMode and the foreign keys).
LEMMA GoneStep ==
    ASSUME CatalogInv, CatalogNext
    PROVE  BuiltInInv' /\ GoneModesAreEmpty'
  <1>1. CatalogShape /\ BuiltInInv /\ GoneModesAreEmpty
    BY DEF CatalogInv
  <1> DEFINE Left(n) ==
          /\ \A u \in People : person[u].mode # n /\ picked[u][n] = {}
          /\ \A f \in Feeds : link[n][f] = "none"
          /\ merged[n] = Empty
          /\ number[n] = NoNumbers
  <1>2. ASSUME NEW n \in Modes, ~Exists(n)
        PROVE  Left(n)
    BY <1>1, <1>2 DEF GoneModesAreEmpty, LiveModes
  <1>3. ASSUME modeIs' = modeIs,
               \A n \in Modes : ~Exists(n) => Left(n)'
        PROVE  BuiltInInv' /\ GoneModesAreEmpty'
    BY <1>1, <1>3 DEF BuiltInInv, GoneModesAreEmpty, LiveModes, Exists
  <1>4. ASSUME NEW m \in Modes, NEW on \in {"on", "off"},
               modeIs' = [modeIs EXCEPT ![m] = on],
               \A n \in Modes \ {m} : ~Exists(n) => Left(n)'
        PROVE  BuiltInInv' /\ GoneModesAreEmpty'
    <2>1. Exists(m)' /\ \A n \in Modes \ {m} : Exists(n)' <=> Exists(n)
      BY <1>1, <1>4 DEF CatalogShape, Exists
    <2>2. BuiltInInv'
      BY <1>1, <2>1, CatalogAssumption DEF BuiltInInv
    <2>3. \A n \in Modes \ LiveModes' : n # m /\ ~Exists(n)
      BY <2>1 DEF LiveModes
    <2> QED
      BY <1>4, <2>2, <2>3 DEF GoneModesAreEmpty
  <1> HIDE DEF Left
  <1>5. ASSUME NEW n \in Modes, Left(n),
               UNCHANGED <<person, picked, link, merged, number>>
        PROVE  Left(n)'
    BY <1>5 DEF Left
  <1>6. ASSUME NEW n \in Modes, NEW m \in Modes, n # m, Left(n),
               UNCHANGED <<person, picked, number>>,
               \E ls : ReplaceModeFeeds(m, ls)
        PROVE  Left(n)'
    BY <1>1, <1>6 DEF Left, ReplaceModeFeeds, Rebuild, CatalogShape
  <1>7. ASSUME NEW m \in Modes,
               \/ \E on \in {"on", "off"} : CreateMode(m, on) \/ UpdateMode(m, on)
               \/ \E ls \in LinkSets : SetModeFeeds(m, ls)
               \/ \E on \in {"on", "off"}, ls \in LinkSets : SaveMode(m, on, ls)
        PROVE  BuiltInInv' /\ GoneModesAreEmpty'
    <2>1. CASE \E on \in {"on", "off"} : CreateMode(m, on) \/ UpdateMode(m, on)
      BY <1>2, <1>4, <1>5, <2>1 DEF CreateMode, UpdateMode
    <2>2. CASE \E ls \in LinkSets : SetModeFeeds(m, ls)
      <3>1. modeIs' = modeIs /\ Exists(m)
        BY <2>2 DEF SetModeFeeds
      <3>2. ASSUME NEW n \in Modes, ~Exists(n)
            PROVE  Left(n)'
        BY <1>2, <1>6, <2>2, <3>1, <3>2 DEF SetModeFeeds
      <3> QED
        BY <1>3, <3>1, <3>2
    <2>3. CASE \E on \in {"on", "off"}, ls \in LinkSets : SaveMode(m, on, ls)
      <3>1. PICK on \in {"on", "off"}, ls \in LinkSets : SaveMode(m, on, ls)
        BY <2>3
      <3>2. modeIs' = [modeIs EXCEPT ![m] = on]
        BY <3>1 DEF SaveMode, SaveModeWithFeeds
      <3>3. ASSUME NEW n \in Modes \ {m}, ~Exists(n)
            PROVE  Left(n)'
        BY <1>2, <1>6, <3>1, <3>3 DEF SaveMode, SaveModeWithFeeds
      <3> QED
        BY <1>4, <3>2, <3>3
    <2> QED
      BY <1>7, <2>1, <2>2, <2>3
  <1>8. ASSUME NEW m \in Modes, DeleteMode(m)
        PROVE  BuiltInInv' /\ GoneModesAreEmpty'
    <2>1. /\ modeIs' = [modeIs EXCEPT ![m] = "none"] /\ m \notin BuiltIn
          /\ person' = UsersMoved(m)
          /\ picked' = [u \in People |-> [picked[u] EXCEPT ![m] = {}]]
          /\ link' = [link EXCEPT ![m] = [f \in Feeds |-> "none"]]
          /\ merged' = [merged EXCEPT ![m] = Empty]
          /\ number' = [number EXCEPT ![m] = NoNumbers]
      BY <1>8 DEF DeleteMode
    <2>2. BuiltInInv'
      BY <1>1, <2>1, CatalogAssumption DEF BuiltInInv, Exists, CatalogShape
    <2>3. Fallback # m /\ Exists(Fallback) /\ Fallback \in Modes
      BY <1>1, <2>1, CatalogAssumption DEF BuiltInInv
    <2>4. Left(m)'
      <3>1. ASSUME NEW u \in People
            PROVE  person'[u].mode # m /\ picked'[u][m] = {}
        BY <1>1, <2>1, <2>3 DEF UsersMoved, CatalogShape, Person
      <3> QED
        BY <1>1, <2>1, <3>1 DEF Left, CatalogShape
    <2>5. ASSUME NEW n \in Modes, n # m, ~Exists(n)
          PROVE  Left(n)'
      <3>1. Left(n) /\ n # Fallback
        BY <1>2, <2>3, <2>5
      <3>2. ASSUME NEW u \in People
            PROVE  person'[u].mode # n /\ picked'[u][n] = {}
        BY <1>1, <2>1, <2>5, <3>1 DEF Left, UsersMoved, CatalogShape, Person
      <3> QED
        BY <1>1, <2>1, <2>5, <3>1, <3>2 DEF Left, CatalogShape
    <2>6. \A n \in Modes \ LiveModes' : n = m \/ ~Exists(n)
      BY <1>1, <2>1 DEF LiveModes, Exists, CatalogShape
    <2> QED
      BY <2>2, <2>4, <2>5, <2>6 DEF GoneModesAreEmpty, Left
  <1>9. ASSUME NEW f \in Feeds,
               \/ \E m \in Modes : CreateFeed(f, m)
               \/ \E offers \in Offers[f] : SyncFeed(f, offers)
               \/ EnableFeed(f) \/ DeleteFeed(f)
        PROVE  BuiltInInv' /\ GoneModesAreEmpty'
    <2>1. modeIs' = modeIs
      BY <1>9 DEF CreateFeed, SyncFeed, EnableFeed, SetFeed, DeleteFeed
    <2> SUFFICES ASSUME NEW n \in Modes, ~Exists(n)
                 PROVE  Left(n)'
      BY <1>3, <2>1
    <2>2. Left(n)
      BY <1>2
    <2>3. CASE \E m \in Modes : CreateFeed(f, m)
      <3>1. PICK m \in Modes : CreateFeed(f, m)
        BY <2>3
      <3>2. link'[n] = link[n]
        BY <1>1, <3>1 DEF CreateFeed, CatalogShape
      <3> QED
        BY <2>2, <3>1, <3>2 DEF CreateFeed, Left
    <2>4. ASSUME NEW row, SetFeed(f, row)
          PROVE  Left(n)'
      BY <2>2, <2>4 DEF SetFeed, RebuildFor, Rebuild, Left
    <2>5. CASE DeleteFeed(f)
      <3>1. merged'[n] = merged[n]
        BY <2>2, <2>5 DEF DeleteFeed, Rebuild, Left
      <3>2. \A g \in Feeds : link'[n][g] = "none"
        BY <1>1, <2>2, <2>5 DEF DeleteFeed, CatalogShape, LinkSets, Left
      <3>3. \A u \in People : picked'[u][n] = {}
        BY <2>2, <2>5 DEF DeleteFeed, Left
      <3> QED
        BY <2>2, <2>5, <3>1, <3>2, <3>3 DEF DeleteFeed, Left
    <2> QED
      BY <1>9, <2>3, <2>4, <2>5 DEF SyncFeed, EnableFeed
  <1>10. ASSUME NEW u \in People, NEW m \in Modes,
                \/ \E k \in Keys : SaveOwn(u, m, k) \/ SaveFor(u, m, k)
                \/ \E on \in BOOLEAN : EditUser(u, on, m)
                \/ SwitchMode(u, m)
         PROVE  BuiltInInv' /\ GoneModesAreEmpty'
    <2>1. modeIs' = modeIs /\ UNCHANGED <<link, merged, number>> /\ Exists(m)
      BY <1>10
         DEF SaveOwn, SaveFor, Toggled, EditUser, SwitchMode, MayEnter, Exists
    <2> SUFFICES ASSUME NEW n \in Modes, ~Exists(n)
                 PROVE  Left(n)'
      BY <1>3, <2>1
    <2>2. Left(n) /\ n # m
      BY <1>2, <2>1
    <2>3. \A v \in People : person'[v].mode # n
      BY <1>1, <1>10, <2>2
         DEF Left, SaveOwn, SaveFor, Toggled, EditUser, Edited, SwitchMode,
             CatalogShape, Person
    <2>4. \A v \in People : picked'[v][n] = {}
      BY <1>1, <1>10, <2>2
         DEF Left, SaveOwn, SaveFor, Toggled, EditUser, SwitchMode, CatalogShape
    <2> QED
      BY <2>1, <2>2, <2>3, <2>4 DEF Left
  <1>11. CASE \/ \E m \in Modes : \/ GenerateMode(m)
                                  \/ \E batch \in Batches : SetNumbers(m, batch)
                                  \/ ShowPreview(m)
                                  \/ ResetNumbers(m)
              \/ GenerateAll
              \/ Export
    <2>1. /\ UNCHANGED <<modeIs, feedRow, link, merged, person, picked>>
          /\ \A n \in Modes : ~Exists(n) => number'[n] = number[n]
      BY <1>1, <1>11, NumberFrame
    <2> SUFFICES ASSUME NEW n \in Modes, ~Exists(n)
                 PROVE  Left(n)'
      BY <1>3, <2>1
    <2> QED
      BY <1>2, <2>1 DEF Left
  <1> QED
    BY <1>7, <1>8, <1>9, <1>10, <1>11 DEF CatalogNext

----------------------------------------------------------------------------
(* Start, and every step *)

\* The migrations create the built-in modes, and the configured feeds are
\* synchronised first.
LEMMA CatalogStart == CatalogInit => CatalogInv
  <1> SUFFICES ASSUME CatalogInit PROVE CatalogInv
    OBVIOUS
  <1>1. PICK fs \in SUBSET Feeds :
           /\ feedRow \in {r \in [Feeds -> {NoFeedRow} \cup InitialRows] :
                 \A f \in Feeds : IF f \in fs THEN r[f] \in RowsOf(f)
                                  ELSE r[f] = NoFeedRow}
           /\ link = [m \in Modes |-> [f \in Feeds |->
                        IF m = Fallback /\ f \in fs THEN "include" ELSE "none"]]
    BY DEF CatalogInit
  <1>2. InitialRows \subseteq FeedRows
    <2>1. ASSUME NEW f \in Feeds, NEW o \in Offers[f]
          PROVE  [on |-> TRUE, offers |-> o] \in FeedRows
      <3>1. o \in [Services -> SUBSET Addresses]
        BY CatalogData
      <3> QED
        BY <3>1 DEF FeedRows
    <2> QED
      BY <2>1 DEF InitialRows, RowsOf
  <1>3. Fallback \in BuiltIn /\ BuiltIn \subseteq Modes
    BY CatalogAssumption
  <1>4. CatalogShape
    <2>1. link \in [Modes -> LinkSets]
      BY <1>1 DEF LinkSets
    <2>2. feedRow \in [Feeds -> FeedRows \cup {NoFeedRow}]
      BY <1>1, <1>2
    <2>3. /\ modeIs \in [Modes -> {"none", "off", "on"}]
          /\ person \in [People -> Person]
          /\ picked \in [People -> [Modes -> SUBSET Keys]]
          /\ DOMAIN merged = Modes /\ DOMAIN number = Modes
      BY <1>3 DEF CatalogInit, Person
    <2> QED
      BY <2>1, <2>2, <2>3 DEF CatalogShape
  <1>5. MergeInv
    BY DEF CatalogInit, MergeInv
  <1>6. BuiltInInv
    BY <1>3 DEF CatalogInit, BuiltInInv, Exists
  <1>7. ASSUME NEW n \in Modes \ LiveModes
        PROVE  /\ \A u \in People : person[u].mode # n /\ picked[u][n] = {}
               /\ \A f \in Feeds : link[n][f] = "none"
               /\ merged[n] = Empty
               /\ number[n] = NoNumbers
    <2>1. n # Fallback
      BY <1>3, <1>6 DEF LiveModes, BuiltInInv
    <2>2. \A f \in Feeds : link[n][f] = "none"
      BY <1>1, <2>1
    <2>3. merged[n] = Empty
      <3>1. InUse(feedRow, link, n, "include") = {}
        BY <2>2 DEF InUse, Linked
      <3>2. \A s \in Services : Merged(feedRow, link, n)[s] = {}
        BY <3>1, InMerged
      <3>3. Merged(feedRow, link, n) =
               [s \in Services |-> Merged(feedRow, link, n)[s]]
        BY DEF Merged
      <3> QED
        BY <1>5, <3>2, <3>3 DEF Empty, MergeInv
    <2> QED
      BY <2>1, <2>2, <2>3 DEF CatalogInit
  <1> QED
    BY <1>4, <1>5, <1>6, <1>7 DEF CatalogInv, GoneModesAreEmpty

\* Looking at a preview again and steps that change nothing keep all of it.
LEMMA CatalogStep ==
    ASSUME CatalogInv, [CatalogNext]_catalogVars
    PROVE  CatalogInv'
  <1>1. CASE CatalogNext
    BY <1>1, ShapeStep, MergeStep, GoneStep DEF CatalogInv
  <1>2. CASE UNCHANGED catalogVars
    <2>1. UNCHANGED <<modeIs, feedRow, link, merged, number, person, picked>>
      BY <1>2 DEF catalogVars, catalogTables
    <2>2. CatalogShape' /\ MergeInv'
      BY <2>1 DEF CatalogInv, CatalogShape, MergeInv
    <2>3. BuiltInInv' /\ GoneModesAreEmpty'
      BY <2>1 DEF CatalogInv, BuiltInInv, GoneModesAreEmpty, LiveModes, Exists
    <2> QED
      BY <2>2, <2>3 DEF CatalogInv
  <1> QED
    BY <1>1, <1>2

\* So it holds whatever is done to the catalogue.
LEMMA CatalogInvariant == CatalogSpec => []CatalogInv
  BY CatalogStart, CatalogStep, PTL DEF CatalogSpec

----------------------------------------------------------------------------
(* Theorems *)

\* What is announced to a user is what the enabled feeds offer now for what
\* was picked, without what an excluded feed offers, after any changes of
\* feeds, links, modes and users: no rebuild of the merged entries is missing
\* (rebuildModeEntriesTx, DesiredPrefixes).
THEOREM DesiredStaysCurrent == CatalogSpec => []DesiredIsCurrent
  <1>1. CatalogInv => DesiredIsCurrent
    <2> SUFFICES ASSUME CatalogInv, NEW u \in People
                 PROVE  LET m == person[u].mode
                            from(how) == {f \in Feeds :
                               /\ feedRow[f] # NoFeedRow
                               /\ feedRow[f].on /\ link[m][f] = how}
                        IN  Desired(u) =
                            {a \in UNION {UNION Range(feedRow[f].offers) :
                                          f \in from("include")} :
                               /\ person[u].on /\ modeIs[m] = "on"
                               /\ \E f \in from("include"), s \in Services :
                                     /\ a \in feedRow[f].offers[s]
                                     /\ s \in picked[u][m]
                                        \/ CategoryOf[s] \in picked[u][m]
                               /\ \A f \in from("exclude"), s \in Services :
                                     a \notin feedRow[f].offers[s]}
      BY DEF DesiredIsCurrent
    <2> DEFINE m == person[u].mode
               from(how) == {f \in Feeds : /\ feedRow[f] # NoFeedRow
                                           /\ feedRow[f].on /\ link[m][f] = how}
    <2>1. CatalogShape /\ MergeInv
      BY DEF CatalogInv
    <2>2. m \in Modes /\ person[u].on \in BOOLEAN
      BY <2>1 DEF CatalogShape, Person
    <2>3. \A how : from(how) = InUse(feedRow, link, m, how)
      BY DEF InUse, Linked
    <2>4. ASSUME NEW f \in Feeds, feedRow[f] # NoFeedRow
          PROVE  DOMAIN feedRow[f].offers = Services
      BY <2>1, <2>4 DEF CatalogShape, FeedRows
    <2>5. ASSUME NEW s \in Services, NEW a
          PROVE  a \in merged[m][s] <=>
                    /\ \E f \in from("include") : a \in feedRow[f].offers[s]
                    /\ \A f \in from("exclude"), t \in Services :
                          a \notin feedRow[f].offers[t]
      BY <2>1, <2>2, <2>3, <2>4, InMerged DEF MergeInv
    <2>6. \A s \in Services :
             s \in Mine(u, m) <=>
                s \in picked[u][m] \/ CategoryOf[s] \in picked[u][m]
      BY DEF Mine
    <2>7. \A a : a \in Desired(u) <=>
             /\ modeIs[m] = "on" /\ person[u].on
             /\ \E s \in Mine(u, m) : a \in merged[m][s]
      BY <2>2 DEF Desired, DesiredAnyMode
    <2>8. Mine(u, m) \subseteq Services
      BY DEF Mine
    <2>9. \A a : \A f \in from("include"), s \in Services :
             a \in feedRow[f].offers[s] =>
                a \in UNION {UNION Range(feedRow[g].offers) :
                             g \in from("include")}
      BY <2>4 DEF Range
    <2> HIDE DEF m, from
    <2> DEFINE what ==
          {a \in UNION {UNION Range(feedRow[f].offers) :
                        f \in from("include")} :
             /\ person[u].on /\ modeIs[m] = "on"
             /\ \E f \in from("include"), s \in Services :
                   /\ a \in feedRow[f].offers[s]
                   /\ s \in picked[u][m] \/ CategoryOf[s] \in picked[u][m]
             /\ \A f \in from("exclude"), s \in Services :
                   a \notin feedRow[f].offers[s]}
    <2>10. \A a : a \in Desired(u) <=> a \in what
      BY <2>5, <2>6, <2>7, <2>8, <2>9
    <2>11. Desired(u) = what
      <3> HIDE DEF what
      <3> QED
        BY <2>10
    <2> QED
      BY <2>11 DEF m, from
  <1> QED
    BY <1>1, CatalogInvariant, PTL

\* A mode that was deleted leaves no user, selection, link, entry or number
\* behind, whatever requests were under way (DeleteMode, foreign keys).
THEOREM DeletedModesStayEmpty == CatalogSpec => []GoneModesAreEmpty
  <1>1. CatalogInv => GoneModesAreEmpty
    BY DEF CatalogInv
  <1> QED
    BY <1>1, CatalogInvariant, PTL

\* A reset that is done starts from the numbers of the preview and gives the
\* numbers of the preview, whatever happened since it was shown: otherwise
\* there is a fresh preview and no reset (communities.go, the digest).
THEOREM ResetsAreReviewed == CatalogSpec => ResetIsReviewed
  <1>1. ASSUME CatalogInv, NEW m \in Modes, ResetNumbers(m), number' # number
        PROVE  number[m] = shown.before /\ number'[m] = shown.after
    <2>1. DigestMatches(m) /\ number' = [number EXCEPT ![m] = Fresh(m)]
      BY <1>1 DEF ResetNumbers, NumbersSet, catalogTables
    <2>2. shown = [mode |-> m, before |-> number[m], after |-> Fresh(m)]
      BY <2>1 DEF DigestMatches, Preview
    <2>3. DOMAIN number = Modes
      BY <1>1 DEF CatalogInv, CatalogShape
    <2> QED
      BY <2>1, <2>2, <2>3
  <1>2. CatalogInv =>
           [\A m \in Modes :
              ResetNumbers(m) /\ number' # number
              => /\ number[m] = shown.before
                 /\ number'[m] = shown.after]_catalogVars
    BY <1>1
  <1> QED
    BY <1>2, CatalogInvariant, PTL DEF ResetIsReviewed

\* What is asked of the tables in a transaction is what is announced of the
\* tables that are committed.
LEMMA SelectionIsDesired ==
    ASSUME NEW u \in People, CatalogShape
    PROVE  Selection(u, person, modeIs, merged) = Desired(u)
  <1>1. person[u].on \in BOOLEAN
    BY DEF CatalogShape, Person
  <1>2. CASE person[u].on
    BY <1>2 DEF Selection, Desired, DesiredAnyMode
  <1>3. CASE ~person[u].on
    BY <1>3 DEF Selection, Desired, DesiredAnyMode
  <1> QED
    BY <1>1, <1>2, <1>3

\* Also of tables that are going to be, as long as nobody picks anything.
LEMMA SelectionAfter ==
    ASSUME NEW u \in People, CatalogShape', picked' = picked
    PROVE  Selection(u, person', modeIs', merged') = Desired(u)'
  <1>1. person'[u].on \in BOOLEAN
    BY DEF CatalogShape, Person
  <1>2. CASE person'[u].on
    BY <1>2 DEF Selection, Desired, DesiredAnyMode, Mine
  <1>3. CASE ~person'[u].on
    BY <1>3 DEF Selection, Desired, DesiredAnyMode, Mine
  <1> QED
    BY <1>1, <1>2, <1>3

\* The preview of a save of a mode, or of a user, says exactly what the save
\* does to what each user is announced (blastradius.go, selectionPrefixes).
THEOREM PreviewsAreTrue == CatalogSpec => PreviewIsTrue
  <1>1. ASSUME CatalogShape, CatalogShape', NEW m \in LiveModes,
               SaveMode(m, modeIs'[m], link'[m]), NEW u \in People
        PROVE  LET said == PreviewMode(m, modeIs'[m], link'[m])
               IN  Announces(u) = IF u \in DOMAIN said THEN said[u]
                                  ELSE [lost |-> FALSE, changed |-> FALSE]
    <2> DEFINE on == modeIs'[m]
               ls == link'[m]
               said == PreviewMode(m, on, ls)
    <2>1. /\ modeIs' = TrialOf(m, on)
          /\ merged' = Rebuild(feedRow, [link EXCEPT ![m] = ls], {m})
          /\ UNCHANGED <<person, picked>>
      BY <1>1 DEF SaveMode, SaveModeWithFeeds, ReplaceModeFeeds, TrialOf
    <2>2. Desired(u) = Selection(u, person, modeIs, merged)
      BY <1>1, SelectionIsDesired
    <2>3. Desired(u)' = Selection(u, person, modeIs', merged')
      BY <1>1, <2>1, SelectionAfter
    <2>4. said = [v \in UsersOf(m) |->
                    Difference(Selection(v, person, modeIs, merged),
                               Selection(v, person, modeIs', merged'))]
      BY <2>1 DEF PreviewMode, Radius
    <2>5. CASE u \in UsersOf(m)
      BY <2>2, <2>3, <2>4, <2>5 DEF Announces
    <2>6. CASE u \notin UsersOf(m)
      <3>1. person[u].mode # m /\ person[u].mode \in Modes
        BY <1>1, <2>6 DEF UsersOf, CatalogShape, Person
      <3>2. /\ modeIs'[person[u].mode] = modeIs[person[u].mode]
            /\ merged'[person[u].mode] = merged[person[u].mode]
        BY <1>1, <2>1, <3>1 DEF TrialOf, Rebuild, CatalogShape
      <3>3. Desired(u)' = Desired(u)
        BY <2>2, <2>3, <3>2 DEF Selection
      <3>4. Announces(u) = [lost |-> FALSE, changed |-> FALSE]
        BY <3>3 DEF Announces, Difference
      <3>5. u \notin DOMAIN said
        BY <2>4, <2>6
      <3> QED
        BY <3>4, <3>5
    <2> QED
      BY <2>5, <2>6
  <1>2. ASSUME CatalogShape, CatalogShape', NEW u \in People,
               EditUser(u, person'[u].on, person'[u].mode)
        PROVE  Announces(u) =
                  PreviewEdit(u, person'[u].on, person'[u].mode)[u]
    <2>1. /\ person' = Edited(u, person'[u].on, person'[u].mode)
          /\ UNCHANGED <<modeIs, merged, picked>>
      BY <1>2 DEF EditUser
    <2>2. Desired(u) = Selection(u, person, modeIs, merged)
      BY <1>2, SelectionIsDesired
    <2>3. Desired(u)' = Selection(u, person', modeIs, merged)
      BY <1>2, <2>1, SelectionAfter
    <2>4. PreviewEdit(u, person'[u].on, person'[u].mode)[u] =
             Difference(Selection(u, person, modeIs, merged),
                        Selection(u, person', modeIs, merged))
      BY <2>1 DEF PreviewEdit, Radius
    <2> QED
      BY <2>2, <2>3, <2>4 DEF Announces
  <1>3. CatalogInv /\ CatalogInv' =>
           [/\ \A m \in LiveModes : LET on == modeIs'[m]
                                     ls == link'[m]
                                     said == PreviewMode(m, on, ls)
                 IN  SaveMode(m, on, ls) => \A u \in People :
                        Announces(u) = IF u \in DOMAIN said THEN said[u]
                                       ELSE [lost |-> FALSE, changed |-> FALSE]
            /\ \A u \in People : LET on == person'[u].on
                                    m == person'[u].mode
                 IN  EditUser(u, on, m) =>
                        Announces(u) = PreviewEdit(u, on, m)[u]
           ]_catalogVars
    BY <1>1, <1>2 DEF CatalogInv
  <1> QED
    BY <1>3, CatalogInvariant, PTL DEF PreviewIsTrue
----------------------------------------------------------------------------
(* Induction along a list *)

\* A nonempty set of numbers has a least one.
LEMMA LeastOf ==
    ASSUME NEW T \in SUBSET Nat, T # {}
    PROVE  \E m \in T : \A t \in T : m <= t
<1> DEFINE Lower(t) == {u \in T : u < t}
<1> DEFINE Sets == {Lower(t) : t \in T}
<1>0. \A t \in T : t \in Nat /\ t \in Int
    OBVIOUS
<1>1. Sets \subseteq FiniteSubsetsOf(T) /\ Sets # {}
  <2>1. ASSUME NEW t \in T PROVE Lower(t) \in FiniteSubsetsOf(T)
    <3>1. IsFiniteSet(0..t)
      BY <1>0, FS_Interval
    <3>2. ASSUME NEW u \in Lower(t) PROVE u \in 0..t
      <4>1. u \in Int /\ t \in Int /\ 0 <= u /\ u < t
        BY <1>0
      <4>. QED
        BY <4>1
    <3>3. IsFiniteSet(Lower(t))
      BY <3>1, <3>2, FS_Subset
    <3>. QED
      BY <3>3 DEF FiniteSubsetsOf
  <2> HIDE DEF Lower
  <2>. QED
    BY <2>1
<1>2. PICK X \in Sets : \A Y \in Sets : ~(<<Y, X>> \in StrictSubsetOrdering(T))
  <2> HIDE DEF Sets
  <2>. QED
    BY <1>1, FS_StrictSubsetOrderingWellFounded, WFMin
<1>3. PICK m \in T : X = Lower(m)
    OBVIOUS
<1>4. ASSUME NEW u \in T, ~(m <= u) PROVE FALSE
  <2>1. /\ u < m /\ ~(u < u)
        /\ \A w \in T : w < u => w < m
    BY <1>0, <1>4
  <2>2. Lower(u) \subseteq Lower(m) /\ u \in Lower(m) /\ u \notin Lower(u)
    BY <2>1
  <2>3. <<Lower(u), X>> \in StrictSubsetOrdering(T)
    BY <1>3, <2>2 DEF StrictSubsetOrdering
  <2>. QED
    BY <1>2, <2>3
<1>. QED
    BY <1>4

\* What holds before the first step and after each holds up to the last.
LEMMA AlongList ==
    ASSUME NEW L \in Nat, NEW S, 0 \in S,
           \A i \in 1..L : i - 1 \in S => i \in S
    PROVE  \A i \in 0..L : i \in S
<1> DEFINE T == (0..L) \ S
<1>1. SUFFICES ASSUME T # {} PROVE FALSE
    OBVIOUS
<1>2. PICK m \in T : \A t \in T : m <= t
  <2>1. T \in SUBSET Nat
    OBVIOUS
  <2> HIDE DEF T
  <2>. QED
    BY <1>1, <2>1, LeastOf
<1>3. m \in 1..L /\ m - 1 \in 0..L /\ ~(m <= m - 1)
    OBVIOUS
<1>4. m - 1 \in S
    BY <1>2, <1>3
<1>. QED
    BY <1>3, <1>4

----------------------------------------------------------------------------
(* Community numbers *)

\* Numbers of a mode that differ where there are any.
Numbering ==
    {num \in [Keys -> Nat] :
       \A j, k \in Keys : j # k /\ num[j] # 0 => num[j] # num[k]}
\* What has a number keeps it.
Kept(num, new) == \A k \in Keys : num[k] # 0 => new[k] = num[k]

\* The lists are sequences of keys.
LEMMA ListFacts ==
    /\ Len(CategoryList) \in Nat /\ Len(ServiceList) \in Nat
    /\ \A i \in 1..Len(CategoryList) : CategoryList[i] \in Categories
    /\ \A i \in 1..Len(ServiceList) : ServiceList[i] \in Services
    /\ IsFiniteSet(Keys)
  <1>1. CategoryList \in Seq(Categories) /\ ServiceList \in Seq(Services)
    BY CatalogData
  <1>2. IsFiniteSet(Categories)
    <2>1. \A c \in Categories : \E i \in 1..Len(CategoryList) :
             CategoryList[i] = c
      BY <1>1 DEF Categories, Range
    <2> QED
      BY <1>1, <2>1 DEF IsFiniteSet
  <1>3. IsFiniteSet(Services)
    <2>1. \A t \in Services : \E i \in 1..Len(ServiceList) :
             ServiceList[i] = t
      BY <1>1 DEF Services, Range
    <2> QED
      BY <1>1, <2>1 DEF IsFiniteSet
  <1>4. IsFiniteSet(Keys)
    BY <1>2, <1>3, FS_Union DEF Keys
  <1> QED
    BY <1>1, <1>4

\* findFirstFree finds a number that nobody has.
LEMMA FreeNumber ==
    ASSUME NEW num \in [Keys -> Nat], NEW n \in Nat \ {0}
    PROVE  /\ FirstFree(n, num) \in Nat \ {0}
           /\ \A k \in Keys : num[k] # FirstFree(n, num)
  <1> DEFINE held == {num[k] : k \in Keys}
  <1> DEFINE last == n + Cardinality(Keys)
  <1> DEFINE free == (n..last) \ Held(num)
  <1>1. /\ IsFiniteSet(held) /\ Cardinality(held) <= Cardinality(Keys)
        /\ Cardinality(held) \in Nat /\ Cardinality(Keys) \in Nat
    <2>1. num \in Surjection(Keys, held)
      BY DEF Surjection
    <2>2. IsFiniteSet(held) /\ Cardinality(held) <= Cardinality(Keys)
      BY <2>1, ListFacts, FS_Surjection
    <2> QED
      BY <2>2, ListFacts, FS_CardinalityType
  <1> HIDE DEF held
  <1>2. free # {}
    <2>1. SUFFICES ASSUME n..last \subseteq held PROVE FALSE
      BY DEF Held, held
    <2>2. Cardinality(n..last) = last - n + 1
      BY <1>1, FS_Interval
    <2>3. n..last \in SUBSET held
      BY <2>1
    <2>4. Cardinality(n..last) <= Cardinality(held)
      BY <1>1, <2>3, FS_Subset
    <2> QED
      BY <1>1, <2>2, <2>4
  <1>3. free \in SUBSET Nat /\ 0 \notin free
    BY <1>1
  <1>4. Min(free) \in free
    <2> HIDE DEF free
    <2>1. PICK k \in free : \A x \in free : k <= x
      BY <1>2, <1>3, LeastOf
    <2> QED
      BY <2>1 DEF Min
  <1>5. FirstFree(n, num) = Min(free)
    BY DEF FirstFree
  <1> QED
    BY <1>3, <1>4, <1>5 DEF Held

\* So it can be given to whoever has none.
LEMMA NumberGiven ==
    ASSUME NEW num \in Numbering, NEW k \in Keys, num[k] = 0, NEW n \in Nat \ {0}
    PROVE  LET new == [num EXCEPT ![k] = FirstFree(n, num)]
           IN  new \in Numbering /\ Kept(num, new)
  <1> DEFINE v == FirstFree(n, num)
  <1> DEFINE new == [num EXCEPT ![k] = v]
  <1>1. num \in [Keys -> Nat]
    BY DEF Numbering
  <1>2. v \in Nat \ {0} /\ \A j \in Keys : num[j] # v
    BY <1>1, FreeNumber
  <1> HIDE DEF v
  <1>3. /\ new \in [Keys -> Nat] /\ new[k] = v
        /\ \A j \in Keys \ {k} : new[j] = num[j]
    BY <1>1, <1>2
  <1> HIDE DEF new
  <1>4. new \in Numbering /\ Kept(num, new)
    BY <1>2, <1>3 DEF Numbering, Kept
  <1> QED
    BY <1>4 DEF new, v

LEMMA KeptTwice ==
    ASSUME NEW num \in Numbering, NEW mid, Kept(num, mid), NEW new, Kept(mid, new)
    PROVE  Kept(num, new)
  BY DEF Kept

\* The services of a category (genCommunitiesRuntime).
LEMMA ServiceKeeps ==
    ASSUME NEW num \in Numbering, NEW s \in Keys, NEW group \in Nat
    PROVE  /\ AddService(num, s, group) \in Numbering
           /\ Kept(num, AddService(num, s, group))
  <1>1. CASE num[s] # 0
    BY <1>1 DEF AddService, Kept
  <1>2. CASE num[s] = 0
    <2>1. group + 1 \in Nat \ {0}
      OBVIOUS
    <2> QED
      BY <1>2, <2>1, NumberGiven DEF AddService
  <1> QED
    BY <1>1, <1>2

\* The loop over them is a function of how far it is.
Served(num, ss, c, group, last, d) ==
    d = [i \in 0..last |->
           IF i = 0 THEN [num EXCEPT ![c] = group]
           ELSE LET s == ServiceList[i]
                IN  IF s \in ss /\ CategoryOf[s] = c
                    THEN AddService(d[i - 1], s, group) ELSE d[i - 1]]
LEMMA ServedExists ==
    ASSUME NEW num, NEW ss, NEW c, NEW group
    PROVE  \E d : Served(num, ss, c, group, Len(ServiceList), d)
  <1> DEFINE L == Len(ServiceList)
  <1> DEFINE S == {l \in 0..L : \E d : Served(num, ss, c, group, l, d)}
  <1> DEFINE first == [num EXCEPT ![c] = group]
  <1> DEFINE next(x, i) == LET s == ServiceList[i]
                           IN  IF s \in ss /\ CategoryOf[s] = c
                               THEN AddService(x, s, group) ELSE x
  <1>1. 0 \in S
    <2> DEFINE d == [i \in 0..0 |-> first]
    <2>1. Served(num, ss, c, group, 0, d)
      BY DEF Served
    <2> QED
      BY <2>1, ListFacts
  <1>2. ASSUME NEW l \in 1..L, l - 1 \in S PROVE l \in S
    <2>1. PICK d : Served(num, ss, c, group, l - 1, d)
      BY <1>2
    <2> DEFINE e == [i \in 0..l |-> IF i < l THEN d[i] ELSE next(d[l - 1], l)]
    <2>2. \A i \in 0..(l - 1) : d[i] = IF i = 0 THEN first ELSE next(d[i - 1], i)
      BY <2>1 DEF Served
    <2> HIDE DEF first, next
    <2>3. ASSUME NEW i \in 0..l
          PROVE  e[i] = IF i = 0 THEN first ELSE next(e[i - 1], i)
      <3>1. CASE i = 0
        BY <2>2, <3>1, ListFacts
      <3>2. CASE i # 0 /\ i < l
        <4>1. /\ i \in 0..(l - 1) /\ i - 1 \in 0..l /\ i - 1 < l
              /\ e[i] = d[i] /\ e[i - 1] = d[i - 1]
          BY <3>2, ListFacts
        <4> QED
          BY <2>2, <3>2, <4>1
      <3>3. CASE i = l
        BY <3>3, ListFacts
      <3> QED
        BY <3>1, <3>2, <3>3, ListFacts
    <2>4. Served(num, ss, c, group, l, e)
      BY <2>3 DEF Served, first, next
    <2> QED
      BY <2>4
  <1>3. L \in 0..L /\ L \in S
    <2> HIDE DEF S
    <2>1. L \in Nat /\ \A i \in 1..L : i - 1 \in S => i \in S
      BY <1>2, ListFacts
    <2> HIDE DEF L
    <2>2. \A i \in 0..L : i \in S
      BY <1>1, <2>1, AlongList
    <2> QED
      BY <2>1, <2>2
  <1> QED
    BY <1>3

\* A category and its services get numbers (genCommunitiesRuntime).
LEMMA CategoryKeeps ==
    ASSUME NEW num \in Numbering, NEW ss, NEW c \in Categories,
           NEW base \in Nat \ {0}
    PROVE  /\ AddCategory(num, ss, c, base) \in Numbering
           /\ Kept(num, AddCategory(num, ss, c, base))
  <1> DEFINE L == Len(ServiceList)
  <1> DEFINE group == IF num[c] # 0 THEN num[c] ELSE FirstFree(base, num)
  <1> DEFINE first == [num EXCEPT ![c] = group]
  <1> DEFINE d == CHOOSE e : Served(num, ss, c, group, L, e)
  <1>1. c \in Keys /\ num \in [Keys -> Nat]
    BY DEF Keys, Numbering
  <1>2. group \in Nat /\ first \in Numbering /\ Kept(num, first)
    <2>1. CASE num[c] # 0
      <3>1. group = num[c] /\ [num EXCEPT ![c] = num[c]] = num
        BY <1>1, <2>1
      <3> QED
        BY <1>1, <3>1 DEF Kept
    <2>2. CASE num[c] = 0
      <3>1. group = FirstFree(base, num)
        BY <2>2
      <3> QED
        BY <1>1, <2>2, <3>1, NumberGiven, FreeNumber
    <2> QED
      BY <2>1, <2>2
  <1> HIDE DEF group
  <1>3. Served(num, ss, c, group, L, d)
    BY ServedExists
  <1>4. AddCategory(num, ss, c, base) = d[L]
    BY DEF AddCategory, Served, group
  <1> HIDE DEF d
  <1> DEFINE S == {i \in 0..L : d[i] \in Numbering /\ Kept(num, d[i])}
  <1>5. 0 \in S
    <2>1. d[0] = first
      BY <1>3, ListFacts DEF Served
    <2> QED
      BY <1>2, <2>1, ListFacts
  <1>6. ASSUME NEW i \in 1..L, i - 1 \in S PROVE i \in S
    <2> DEFINE s == ServiceList[i]
    <2>1. i \in 0..L /\ i # 0 /\ s \in Keys
      BY ListFacts DEF Keys
    <2>2. d[i] = IF s \in ss /\ CategoryOf[s] = c
                 THEN AddService(d[i - 1], s, group) ELSE d[i - 1]
      BY <1>3, <2>1 DEF Served
    <2>3. d[i - 1] \in Numbering /\ Kept(num, d[i - 1])
      BY <1>6
    <2> HIDE DEF s
    <2>4. /\ AddService(d[i - 1], s, group) \in Numbering
          /\ Kept(d[i - 1], AddService(d[i - 1], s, group))
      BY <1>2, <2>1, <2>3, ServiceKeeps
    <2>5. Kept(num, AddService(d[i - 1], s, group))
      BY <2>3, <2>4, KeptTwice
    <2> QED
      BY <2>1, <2>2, <2>3, <2>4, <2>5
  <1>7. L \in S
    <2> HIDE DEF S
    <2>1. L \in Nat /\ \A i \in 1..L : i - 1 \in S => i \in S
      BY <1>6, ListFacts
    <2> HIDE DEF L
    <2>2. \A i \in 0..L : i \in S
      BY <1>5, <2>1, AlongList
    <2> QED
      BY <2>1, <2>2
  <1> QED
    BY <1>4, <1>7

\* The loop over the categories.
Grouped(num, ss, last, d) ==
    d = [i \in 0..last |->
           IF i = 0 THEN num
           ELSE IF CategoryList[i] \in CategoriesIn(ss)
           THEN AddCategory(d[i - 1], ss, CategoryList[i],
                            BaseOf(i, CategoriesIn(ss)))
           ELSE d[i - 1]]
LEMMA GroupedExists ==
    ASSUME NEW num, NEW ss
    PROVE  \E d : Grouped(num, ss, Len(CategoryList), d)
  <1> DEFINE L == Len(CategoryList)
  <1> DEFINE S == {l \in 0..L : \E d : Grouped(num, ss, l, d)}
  <1> DEFINE first == num
  <1> DEFINE next(x, i) == IF CategoryList[i] \in CategoriesIn(ss)
                           THEN AddCategory(x, ss, CategoryList[i],
                                            BaseOf(i, CategoriesIn(ss)))
                           ELSE x
  <1>1. 0 \in S
    <2> DEFINE d == [i \in 0..0 |-> first]
    <2>1. Grouped(num, ss, 0, d)
      BY DEF Grouped
    <2> QED
      BY <2>1, ListFacts
  <1>2. ASSUME NEW l \in 1..L, l - 1 \in S PROVE l \in S
    <2>1. PICK d : Grouped(num, ss, l - 1, d)
      BY <1>2
    <2> DEFINE e == [i \in 0..l |-> IF i < l THEN d[i] ELSE next(d[l - 1], l)]
    <2>2. \A i \in 0..(l - 1) : d[i] = IF i = 0 THEN first ELSE next(d[i - 1], i)
      BY <2>1 DEF Grouped
    <2> HIDE DEF first, next
    <2>3. ASSUME NEW i \in 0..l
          PROVE  e[i] = IF i = 0 THEN first ELSE next(e[i - 1], i)
      <3>1. CASE i = 0
        BY <2>2, <3>1, ListFacts
      <3>2. CASE i # 0 /\ i < l
        <4>1. /\ i \in 0..(l - 1) /\ i - 1 \in 0..l /\ i - 1 < l
              /\ e[i] = d[i] /\ e[i - 1] = d[i - 1]
          BY <3>2, ListFacts
        <4> QED
          BY <2>2, <3>2, <4>1
      <3>3. CASE i = l
        BY <3>3, ListFacts
      <3> QED
        BY <3>1, <3>2, <3>3, ListFacts
    <2>4. Grouped(num, ss, l, e)
      BY <2>3 DEF Grouped, first, next
    <2> QED
      BY <2>4
  <1>3. L \in 0..L /\ L \in S
    <2> HIDE DEF S
    <2>1. L \in Nat /\ \A i \in 1..L : i - 1 \in S => i \in S
      BY <1>2, ListFacts
    <2> HIDE DEF L
    <2>2. \A i \in 0..L : i \in S
      BY <1>1, <2>1, AlongList
    <2> QED
      BY <2>1, <2>2
  <1> QED
    BY <1>3

\* A category that is in use has a place on the grid.
LEMMA BaseFacts ==
    ASSUME NEW cs, NEW i \in 1..Len(CategoryList), CategoryList[i] \in cs
    PROVE  BaseOf(i, cs) \in Nat \ {0}
  <1> DEFINE T == {j \in 1..i : CategoryList[j] \in cs}
  <1>1. IsFiniteSet(1..i)
    BY ListFacts, FS_Interval
  <1>2. T \in SUBSET (1..i) /\ T # {}
    BY ListFacts
  <1> HIDE DEF T
  <1>3. IsFiniteSet(T)
    BY <1>1, <1>2, FS_Subset
  <1>4. Cardinality(T) \in Nat /\ Cardinality(T) # 0
    BY <1>2, <1>3, FS_CardinalityType, FS_EmptySet
  <1>5. Gap \in Nat \ {0}
    BY CatalogAssumption
  <1>6. \A a, b \in Nat \ {0} : a * b \in Nat \ {0}
    OBVIOUS
  <1>7. Gap * Cardinality(T) \in Nat \ {0}
    BY <1>4, <1>5, <1>6
  <1> QED
    BY <1>7 DEF BaseOf, T

\* Generating numbers renumbers nothing and uses none twice.
LEMMA GeneratedKeeps ==
    ASSUME NEW num \in Numbering, NEW ss
    PROVE  Generated(num, ss) \in Numbering /\ Kept(num, Generated(num, ss))
  <1> DEFINE L == Len(CategoryList)
  <1> DEFINE d == CHOOSE e : Grouped(num, ss, L, e)
  <1>1. Grouped(num, ss, L, d)
    BY GroupedExists
  <1>2. Generated(num, ss) = d[L]
    BY DEF Generated, Grouped
  <1> HIDE DEF d
  <1> DEFINE S == {i \in 0..L : d[i] \in Numbering /\ Kept(num, d[i])}
  <1>3. 0 \in S
    <2>1. d[0] = num
      BY <1>1, ListFacts DEF Grouped
    <2> QED
      BY <2>1, ListFacts DEF Kept
  <1>4. ASSUME NEW i \in 1..L, i - 1 \in S PROVE i \in S
    <2> DEFINE c == CategoryList[i]
    <2> DEFINE base == BaseOf(i, CategoriesIn(ss))
    <2>1. i \in 0..L /\ i # 0 /\ c \in Categories
      BY ListFacts
    <2>2. d[i] = IF c \in CategoriesIn(ss)
                 THEN AddCategory(d[i - 1], ss, c, base) ELSE d[i - 1]
      BY <1>1, <2>1 DEF Grouped
    <2>3. d[i - 1] \in Numbering /\ Kept(num, d[i - 1])
      BY <1>4
    <2>4. c \in CategoriesIn(ss) => base \in Nat \ {0}
      BY BaseFacts
    <2> HIDE DEF c, base
    <2>5. c \in CategoriesIn(ss) =>
             /\ AddCategory(d[i - 1], ss, c, base) \in Numbering
             /\ Kept(d[i - 1], AddCategory(d[i - 1], ss, c, base))
      BY <2>1, <2>3, <2>4, CategoryKeeps
    <2>6. c \in CategoriesIn(ss) =>
             Kept(num, AddCategory(d[i - 1], ss, c, base))
      BY <2>3, <2>5, KeptTwice
    <2> QED
      BY <2>1, <2>2, <2>3, <2>5, <2>6
  <1>5. L \in S
    <2> HIDE DEF S
    <2>1. L \in Nat /\ \A i \in 1..L : i - 1 \in S => i \in S
      BY <1>4, ListFacts
    <2> HIDE DEF L
    <2>2. \A i \in 0..L : i \in S
      BY <1>3, <2>1, AlongList
    <2> QED
      BY <2>1, <2>2
  <1> QED
    BY <1>2, <1>5

LEMMA NoNumbersIsNumbering == NoNumbers \in Numbering
  BY DEF NoNumbers, Numbering

\* A request for numbers, entry after entry (SetCommunities).
Entered(num, batch, last, d) ==
    d = [i \in 0..last |->
           IF i = 0 THEN num
           ELSE [d[i - 1] EXCEPT ![batch[i].key] = batch[i].value]]
LEMMA BatchFacts ==
    ASSUME NEW batch \in Batches
    PROVE  /\ Len(batch) \in Nat
           /\ \A i \in 1..Len(batch) : i \in DOMAIN batch
           /\ \A i \in DOMAIN batch :
                 batch[i].key \in Keys /\ batch[i].value \in Nat
  <1>1. \A e \in Entry : e.key \in Keys /\ e.value \in Nat
    <2>1. Chosen \cup {0} \subseteq Nat
      BY CatalogAssumption
    <2> QED
      BY <2>1 DEF Entry
  <1>2. CASE \E e \in Entry : batch = <<e>>
    BY <1>1, <1>2
  <1>3. CASE \E d \in Clearing, e \in Entry \ Clearing : batch = <<d, e>>
    BY <1>1, <1>3 DEF Clearing
  <1> QED
    BY <1>2, <1>3 DEF Batches
LEMMA EnteredExists ==
    ASSUME NEW num, NEW batch, Len(batch) \in Nat
    PROVE  \E d : Entered(num, batch, Len(batch), d)
  <1> DEFINE L == Len(batch)
  <1> DEFINE S == {l \in 0..L : \E d : Entered(num, batch, l, d)}
  <1> DEFINE next(x, i) == [x EXCEPT ![batch[i].key] = batch[i].value]
  <1>1. 0 \in S
    <2> DEFINE d == [i \in 0..0 |-> num]
    <2>1. Entered(num, batch, 0, d)
      BY DEF Entered
    <2> QED
      BY <2>1
  <1>2. ASSUME NEW l \in 1..L, l - 1 \in S PROVE l \in S
    <2>1. PICK d : Entered(num, batch, l - 1, d)
      BY <1>2
    <2> DEFINE e == [i \in 0..l |-> IF i < l THEN d[i] ELSE next(d[l - 1], l)]
    <2>2. \A i \in 0..(l - 1) : d[i] = IF i = 0 THEN num ELSE next(d[i - 1], i)
      BY <2>1 DEF Entered
    <2> HIDE DEF next
    <2>3. ASSUME NEW i \in 0..l
          PROVE  e[i] = IF i = 0 THEN num ELSE next(e[i - 1], i)
      <3>1. CASE i = 0
        BY <2>2, <3>1
      <3>2. CASE i # 0 /\ i < l
        <4>1. /\ i \in 0..(l - 1) /\ i - 1 \in 0..l /\ i - 1 < l
              /\ e[i] = d[i] /\ e[i - 1] = d[i - 1]
          BY <3>2
        <4> QED
          BY <2>2, <3>2, <4>1
      <3>3. CASE i = l
        BY <3>3
      <3> QED
        BY <3>1, <3>2, <3>3
    <2>4. Entered(num, batch, l, e)
      BY <2>3 DEF Entered, next
    <2> QED
      BY <2>4
  <1>3. L \in 0..L /\ L \in S
    <2> HIDE DEF S
    <2>1. L \in Nat /\ \A i \in 1..L : i - 1 \in S => i \in S
      BY <1>2
    <2> HIDE DEF L
    <2>2. \A i \in 0..L : i \in S
      BY <1>1, <2>1, AlongList
    <2> QED
      BY <2>1, <2>2
  <1> QED
    BY <1>3

\* A request that is accepted gives nobody the number of another, and changes
\* only what it names (SetCommunities).
LEMMA BatchKeeps ==
    ASSUME NEW num \in Numbering, NEW batch \in Batches, Accepted(num, batch)
    PROVE  /\ Applied(num, batch) \in Numbering
           /\ \A k \in Keys : (\A i \in DOMAIN batch : batch[i].key # k)
                 => Applied(num, batch)[k] = num[k]
  <1> DEFINE L == Len(batch)
  <1> DEFINE d == CHOOSE e : Entered(num, batch, L, e)
  <1> DEFINE Same(x) == \A k \in Keys :
                (\A i \in DOMAIN batch : batch[i].key # k) => x[k] = num[k]
  <1>1. Entered(num, batch, L, d)
    BY BatchFacts, EnteredExists
  <1>2. AfterEntries(num, batch) = d
    BY DEF AfterEntries, Entered
  <1> HIDE DEF d
  <1> DEFINE S == {i \in 0..L : d[i] \in Numbering /\ Same(d[i])}
  <1>3. 0 \in S
    <2>1. d[0] = num
      BY <1>1, BatchFacts DEF Entered
    <2> QED
      BY <2>1, BatchFacts
  <1>4. ASSUME NEW i \in 1..L, i - 1 \in S PROVE i \in S
    <2> DEFINE x == d[i - 1]
    <2> DEFINE k == batch[i].key
    <2> DEFINE v == batch[i].value
    <2>1. i \in 0..L /\ i # 0 /\ i \in DOMAIN batch /\ k \in Keys /\ v \in Nat
      BY BatchFacts
    <2>2. d[i] = [x EXCEPT ![k] = v]
      BY <1>1, <2>1 DEF Entered
    <2>3. x \in Numbering /\ Same(x)
      BY <1>4
    <2>4. v # 0 => \A j \in Keys \ {k} : x[j] # v
      BY <1>2, <2>1 DEF Accepted, Taken
    <2>5. \A j \in Keys : (\A h \in DOMAIN batch : batch[h].key # j) => j # k
      BY <2>1
    <2> HIDE DEF x, k, v
    <2>6. x \in [Keys -> Nat]
      BY <2>3 DEF Numbering
    <2>7. /\ d[i] \in [Keys -> Nat] /\ d[i][k] = v
          /\ \A j \in Keys \ {k} : d[i][j] = x[j]
      BY <2>1, <2>2, <2>6
    <2>8. d[i] \in Numbering
      BY <2>1, <2>3, <2>4, <2>7 DEF Numbering
    <2>9. Same(d[i])
      BY <2>3, <2>5, <2>7
    <2> QED
      BY <2>1, <2>8, <2>9
  <1>5. L \in S
    <2> HIDE DEF S
    <2>1. L \in Nat /\ \A i \in 1..L : i - 1 \in S => i \in S
      BY <1>4, BatchFacts
    <2> HIDE DEF L
    <2>2. \A i \in 0..L : i \in S
      BY <1>3, <2>1, AlongList
    <2> QED
      BY <2>1, <2>2
  <1> QED
    BY <1>2, <1>5 DEF Applied

\* Every mode has numbers that differ, and they are stable, whatever happens:
\* only a reset, the end of the mode or a request that names it changes the
\* number of a category or service.
NumbersInv == \A m \in Modes : number[m] \in Numbering
Renumbered(m, k) ==
    \/ ResetNumbers(m)
    \/ DeleteMode(m)
    \/ \E batch \in Batches :
          /\ SetNumbers(m, batch)
          /\ \E i \in DOMAIN batch : batch[i].key = k
StableStep ==
    \A m \in Modes, k \in Keys :
       number[m][k] # 0 /\ number'[m][k] # number[m][k] => Renumbered(m, k)

LEMMA NumbersStep ==
    ASSUME CatalogShape, NumbersInv, CatalogNext
    PROVE  NumbersInv' /\ StableStep
  <1>1. ASSUME number' = number
        PROVE  NumbersInv' /\ StableStep
    BY <1>1 DEF NumbersInv, StableStep
  <1>2. ASSUME NEW ms \in SUBSET Modes,
               number' = [m \in Modes |-> IF m \in ms THEN Fill(m) ELSE number[m]]
        PROVE  NumbersInv' /\ StableStep
    <2>1. ASSUME NEW m \in Modes
          PROVE  number'[m] \in Numbering /\ Kept(number[m], number'[m])
      <3>1. number[m] \in Numbering
        BY DEF NumbersInv
      <3>2. Fill(m) \in Numbering /\ Kept(number[m], Fill(m))
        BY <3>1, GeneratedKeeps DEF Fill
      <3> QED
        BY <1>2, <3>1, <3>2 DEF Kept
    <2> QED
      BY <2>1 DEF NumbersInv, StableStep, Kept
  <1>3. ASSUME NEW m \in Modes, NEW num \in Numbering,
               number' = [number EXCEPT ![m] = num],
               \A k \in Keys : number[m][k] # 0 /\ num[k] # number[m][k]
                  => Renumbered(m, k)
        PROVE  NumbersInv' /\ StableStep
    <2>1. /\ number'[m] = num
          /\ \A n \in Modes \ {m} : number'[n] = number[n]
      BY <1>3 DEF CatalogShape
    <2> QED
      BY <1>3, <2>1 DEF NumbersInv, StableStep
  <1>4. ASSUME NEW m \in Modes, DeleteMode(m)
        PROVE  NumbersInv' /\ StableStep
    <2>1. number' = [number EXCEPT ![m] = NoNumbers]
      BY <1>4 DEF DeleteMode
    <2> QED
      BY <1>3, <1>4, <2>1, NoNumbersIsNumbering DEF Renumbered
  <1>5. ASSUME NEW m \in Modes, GenerateMode(m)
        PROVE  NumbersInv' /\ StableStep
    <2>1. number' = [n \in Modes |-> IF n \in {m} THEN Fill(n) ELSE number[n]]
      BY <1>5 DEF GenerateMode, NumbersSet, CatalogShape
    <2> QED
      BY <1>2, <2>1
  <1>6. ASSUME NEW m \in Modes, NEW batch \in Batches, SetNumbers(m, batch)
        PROVE  NumbersInv' /\ StableStep
    <2> DEFINE mid == Applied(number[m], batch)
    <2> DEFINE new == Generated(mid, Numbered(m))
    <2>1. number' = [number EXCEPT ![m] = new] /\ Accepted(number[m], batch)
      BY <1>6 DEF SetNumbers, NumbersSet
    <2>2. number[m] \in Numbering
      BY DEF NumbersInv
    <2>3. /\ mid \in Numbering
          /\ \A k \in Keys : (\A i \in DOMAIN batch : batch[i].key # k)
                => mid[k] = number[m][k]
      BY <2>1, <2>2, BatchKeeps
    <2> HIDE DEF mid
    <2>4. new \in Numbering /\ Kept(mid, new)
      BY <2>3, GeneratedKeeps
    <2> HIDE DEF new
    <2>5. ASSUME NEW k \in Keys, number[m][k] # 0, new[k] # number[m][k]
          PROVE  Renumbered(m, k)
      <3>1. \E i \in DOMAIN batch : batch[i].key = k
        BY <2>3, <2>4, <2>5 DEF Kept
      <3> QED
        BY <1>6, <3>1 DEF Renumbered
    <2> QED
      BY <1>3, <2>1, <2>4, <2>5
  <1>7. ASSUME NEW m \in Modes, ResetNumbers(m)
        PROVE  NumbersInv' /\ StableStep
    <2>1. CASE number' = [number EXCEPT ![m] = Fresh(m)]
      <3>1. Fresh(m) \in Numbering
        BY NoNumbersIsNumbering, GeneratedKeeps DEF Fresh
      <3> QED
        BY <1>3, <1>7, <2>1, <3>1 DEF Renumbered
    <2>2. CASE number' = number
      BY <1>1, <2>2
    <2> QED
      BY <1>7, <2>1, <2>2 DEF ResetNumbers, NumbersSet, catalogTables
  <1>8. CASE GenerateAll
    <2>1. number' = [n \in Modes |-> IF n \in LiveModes THEN Fill(n) ELSE number[n]]
      BY <1>8 DEF GenerateAll, GeneratedAll, LiveModes
    <2> QED
      BY <1>2, <2>1 DEF LiveModes
  <1>9. CASE Export
    <2>1. number' = [n \in Modes |-> IF n \in LiveModes THEN Fill(n) ELSE number[n]]
      BY <1>9 DEF Export, Snapshot, LiveModes
    <2> QED
      BY <1>2, <2>1 DEF LiveModes
  <1>10. CASE \E m \in Modes : ShowPreview(m)
    BY <1>1, <1>10 DEF ShowPreview, catalogTables
  <1>11. CASE \E m \in Modes :
               \/ \E on \in {"on", "off"} : CreateMode(m, on) \/ UpdateMode(m, on)
               \/ \E ls \in LinkSets : SetModeFeeds(m, ls)
               \/ \E on \in {"on", "off"}, ls \in LinkSets : SaveMode(m, on, ls)
    BY <1>1, <1>11 DEF CreateMode, UpdateMode, SetModeFeeds, SaveMode
  <1>12. CASE \E f \in Feeds :
               \/ \E m \in Modes : CreateFeed(f, m)
               \/ \E offers \in Offers[f] : SyncFeed(f, offers)
               \/ EnableFeed(f) \/ DeleteFeed(f)
    BY <1>1, <1>12 DEF CreateFeed, SyncFeed, EnableFeed, SetFeed, DeleteFeed
  <1>13. CASE \E u \in People, m \in Modes :
               \/ \E k \in Keys : SaveOwn(u, m, k) \/ SaveFor(u, m, k)
               \/ \E on \in BOOLEAN : EditUser(u, on, m)
               \/ SwitchMode(u, m)
    BY <1>1, <1>13 DEF SaveOwn, SaveFor, Toggled, EditUser, SwitchMode
  <1> QED
    BY <1>4, <1>5, <1>6, <1>7, <1>8, <1>9, <1>10, <1>11, <1>12, <1>13
       DEF CatalogNext

\* In every mode each category and service that has a community number has one
\* of its own, and no transaction of the store takes it away unless an
\* administrator resets or deletes the mode or names the key in a request
\* (store/communities.go: genCommunitiesRuntime, findFirstFree, SetCommunities).
THEOREM NumbersStaySound == CatalogSpec => NumbersAreSound
  <1>1. CatalogInit => NumbersInv
    BY NoNumbersIsNumbering DEF CatalogInit, NumbersInv
  <1>2. CatalogInv /\ NumbersInv /\ [CatalogNext]_catalogVars => NumbersInv'
    <2>1. CASE UNCHANGED catalogVars
      BY <2>1 DEF catalogVars, catalogTables, NumbersInv
    <2> QED
      BY <2>1, NumbersStep DEF CatalogInv
  <1>3. NumbersInv => NumbersAreUnique
    BY DEF NumbersInv, NumbersAreUnique, Numbering
  <1>4. /\ CatalogInv /\ NumbersInv /\ [CatalogNext]_catalogVars
        => [\A m \in Modes, k \in Keys :
              number[m][k] # 0 /\ number'[m][k] # number[m][k]
              => \/ ResetNumbers(m)
                 \/ DeleteMode(m)
                 \/ \E batch \in Batches :
                       /\ SetNumbers(m, batch)
                       /\ \E i \in DOMAIN batch : batch[i].key = k]_catalogVars
    <2>1. ASSUME CatalogInv, NumbersInv, CatalogNext
          PROVE  StableStep
      BY <2>1, NumbersStep DEF CatalogInv
    <2> QED
      BY <2>1 DEF StableStep, Renumbered
  <1> QED
    BY <1>1, <1>2, <1>3, <1>4, CatalogInvariant, PTL
       DEF CatalogSpec, NumbersAreSound, NumbersAreStable
==============================================================================
