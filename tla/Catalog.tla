------------------------------- MODULE Catalog -------------------------------
(***************************************************************************)
(* Catalogue modes, their merged entries and their community numbers       *)
(* (store/modes.go, mode_entries.go, catalog.go, communities.go).          *)
(*                                                                         *)
(* A mode links feeds, each to include or to exclude.  Its entries are     *)
(* stored merged: whatever changes a feed, a link or the entries rebuilds  *)
(* the merge in the same transaction.  Every category and service of a     *)
(* mode is announced with a community number: numbers are generated on the *)
(* grid of Gap (10000 in the code), set by an administrator, or reset      *)
(* after a preview was reviewed.  They are exported for routers to use.    *)
(*                                                                         *)
(* One step is one transaction; a handler that uses several is several     *)
(* steps, and the process may end between them.  An entry is a set of      *)
(* addresses (RouteFilter models how prefixes are cut).                    *)
(*                                                                         *)
(* An operator that no action uses, placed before one of the same shape,   *)
(* is a wrong version of it: it is there to show which properties notice.  *)
(***************************************************************************)
EXTENDS Naturals, Sequences, FiniteSetsExt, SequencesExt

CONSTANTS
    Modes,        \* ids of modes
    BuiltIn,      \* the modes that cannot be deleted
    Fallback,     \* the built-in mode users of a deleted one move to
    Feeds,
    CategoryList, \* categories, by name
    ServiceList,  \* services, by name
    CategoryOf,   \* the category of a service
    Offers,       \* what a feed may offer: service -> addresses
    People,       \* users
    Gap,          \* distance of two generated category numbers
    Chosen,       \* numbers an administrator may choose
    NoFeedRow,
    NoPreview,
    MaxChanges    \* bound: changes of the catalogue

ASSUME CatalogAssumption ==
    /\ Fallback \in BuiltIn /\ BuiltIn \subseteq Modes
    /\ Gap \in Nat \ {0} /\ Chosen \subseteq Nat \ {0} /\ MaxChanges \in Nat

VARIABLES
    modeIs,   \* catalog_modes: "none", "off" (disabled) or "on"
    feedRow,  \* feeds, with the entries of each
    link,     \* catalog_mode_feeds: "none", "include" or "exclude"
    merged,   \* catalog_mode_entries: service -> addresses
    number,   \* catalog_communities: 0 where there is none
    person,   \* users: [mode, on]
    picked,   \* selected_categories and selected_services, per mode
    shown,    \* the preview of a reset an administrator is looking at
    changes

catalogTables == <<modeIs, feedRow, link, merged, number, person, picked>>
catalogVars == <<catalogTables, shown, changes>>

Services == Range(ServiceList)
Categories == Range(CategoryList)
Keys == Categories \cup Services
NoNumbers == [k \in Keys |-> 0]
Empty == [s \in Services |-> {}]
Addresses == UNION {UNION Range(o) : o \in UNION {Offers[f] : f \in Feeds}}

ASSUME CatalogData ==
    /\ \A f \in Feeds : Offers[f] \subseteq [Services -> SUBSET Addresses]
    /\ CategoryList \in Seq(Categories) /\ ServiceList \in Seq(Services)

NewRow == [on |-> TRUE, offers |-> Empty]

Exists(m) == modeIs[m] # "none"
LiveModes == {m \in Modes : Exists(m)}
Change == changes < MaxChanges /\ changes' = changes + 1

----------------------------------------------------------------------------
(* The merge of a mode and what users are announced *)

\* The feeds linked to m one way; a disabled feed contributes nothing.
Linked(ls, m, how) == {f \in Feeds : ls[m][f] = how}
InUse(fs, ls, m, how) ==
    {f \in Linked(ls, m, how) : fs[f] # NoFeedRow /\ fs[f].on}
Excluded(fs, ls, m) ==
    UNION {UNION Range(fs[f].offers) : f \in InUse(fs, ls, m, "exclude")}
Merged(fs, ls, m) ==
    [s \in Services |->
       (UNION {fs[f].offers[s] : f \in InUse(fs, ls, m, "include")})
         \ Excluded(fs, ls, m)]

\* rebuildModeEntriesTx for some modes.
NotRebuilt(fs, ls, ms) == merged
Rebuild(fs, ls, ms) ==
    [m \in Modes |-> IF m \in ms THEN Merged(fs, ls, m) ELSE merged[m]]
RebuildFor(fs, f) == Rebuild(fs, link, {m \in Modes : link[m][f] # "none"})

\* What user u has picked in mode m, by category or one by one.
Mine(u, m) == {s \in Services : {s, CategoryOf[s]} \cap picked[u][m] # {}}

\* DesiredPrefixes: what is announced to u before the route filters.
DesiredAnyMode(u) ==
    UNION {merged[person[u].mode][s] :
             s \in {t \in Mine(u, person[u].mode) : person[u].on}}
Desired(u) ==
    IF modeIs[person[u].mode] = "on" THEN DesiredAnyMode(u) ELSE {}

\* selectionPrefixes: the same, asked for one user of the tables as they are
\* in a transaction.
Selection(u, us, ms, mr) ==
    IF us[u].on /\ ms[us[u].mode] = "on"
    THEN UNION {mr[us[u].mode][s] : s \in Mine(u, us[u].mode)}
    ELSE {}

\* The blast radius of a change: tried on the tables, measured and rolled back.
Difference(before, after) ==
    [lost |-> before \ after # {}, changed |-> before # after]
Radius(asked, us, ms, mr) ==
    [u \in asked |-> Difference(Selection(u, person, modeIs, merged),
                                Selection(u, us, ms, mr))]

----------------------------------------------------------------------------
(* Community numbers *)

\* The services that get numbers, those of disabled feeds included.
Numbered(m) ==
    {s \in Services : \E f \in Linked(link, m, "include") :
        feedRow[f] # NoFeedRow /\ feedRow[f].offers[s] # {}}
NumberedEnabled(m) == {s \in Services : merged[m][s] # {}}
Held(num) == {num[k] : k \in Keys} \ {0}
FirstFree(n, num) == Min((n..(n + Cardinality(Keys))) \ Held(num))

ServicesOf(ss, c) ==
    SelectSeq(ServiceList, LAMBDA s : s \in ss /\ CategoryOf[s] = c)
CategoriesOf(ss) ==
    SelectSeq(CategoryList, LAMBDA c : \E s \in ss : CategoryOf[s] = c)

AddServiceAgain(num, s, group) ==
    [num EXCEPT ![s] = FirstFree(group + 1, num)]
AddService(num, s, group) ==
    IF num[s] # 0 THEN num
    ELSE [num EXCEPT ![s] = FirstFree(group + 1, num)]
AddCategory(num, ss, c, base) ==
    LET group == IF num[c] # 0 THEN num[c] ELSE FirstFree(base, num)
        after[i \in 0..Len(ServiceList)] ==
          IF i = 0 THEN [num EXCEPT ![c] = group]
          ELSE LET s == ServiceList[i]
               IN  IF s \in ss /\ CategoryOf[s] = c
                   THEN AddService(after[i - 1], s, group) ELSE after[i - 1]
    IN  after[Len(ServiceList)]
CategoriesIn(ss) == {CategoryOf[s] : s \in ss}
BaseOf(i, cs) == Gap * Cardinality({j \in 1..i : CategoryList[j] \in cs})
\* genCommunitiesRuntime: what has a number keeps it.
Generated(num, ss) ==
    LET after[i \in 0..Len(CategoryList)] ==
          IF i = 0 THEN num
          ELSE IF CategoryList[i] \in CategoriesIn(ss)
          THEN AddCategory(after[i - 1], ss, CategoryList[i],
                           BaseOf(i, CategoriesIn(ss)))
          ELSE after[i - 1]
    IN  after[Len(CategoryList)]
Fill(m) == Generated(number[m], Numbered(m))
Fresh(m) == Generated(NoNumbers, Numbered(m))

\* AutoGroupCommunity and AutoCommunity, as the list of communities shows them
\* beside each number: what a reset would give.
PlaceOf(x, xs) == CHOOSE i \in DOMAIN xs : xs[i] = x
EstimateIn(ss, k) ==
    LET c == IF k \in Categories THEN k ELSE CategoryOf[k]
        base == Gap * PlaceOf(c, CategoriesOf(ss))
    IN  IF k = c THEN base ELSE base + PlaceOf(k, ServicesOf(ss, c))
Estimate(m, k) == EstimateIn(Numbered(m), k)

\* The matrix of numbers by mode shows what a mode serves; a number that is
\* missing there can be generated.
Serves(m) ==
    LET ss == {s \in Services : merged[m][s] # {}}
    IN  ss \cup {CategoryOf[s] : s \in ss}
Missing(m) == {k \in Serves(m) : number[m][k] = 0}

----------------------------------------------------------------------------
(* Init *)

RowsOf(f) == {[on |-> TRUE, offers |-> o] : o \in Offers[f]}
InitialRows == UNION {RowsOf(f) : f \in Feeds}
CatalogInit ==
    /\ modeIs = [m \in Modes |-> IF m \in BuiltIn THEN "on" ELSE "none"]
    /\ \E fs \in SUBSET Feeds :  \* configured, linked and synchronised
          /\ feedRow \in {r \in [Feeds -> {NoFeedRow} \cup InitialRows] :
                \A f \in Feeds : IF f \in fs THEN r[f] \in RowsOf(f)
                                 ELSE r[f] = NoFeedRow}
          /\ link = [m \in Modes |-> [f \in Feeds |->
                       IF m = Fallback /\ f \in fs THEN "include" ELSE "none"]]
    /\ merged = [m \in Modes |-> Merged(feedRow, link, m)]
    /\ number = [m \in Modes |-> NoNumbers]
    /\ person = [u \in People |-> [mode |-> Fallback, on |-> TRUE]]
    /\ picked = [u \in People |-> [m \in Modes |-> {}]]
    /\ shown = NoPreview
    /\ changes = 0

----------------------------------------------------------------------------
(* Modes *)

CreateMode(m, on) ==
    /\ Change
    /\ ~Exists(m)
    /\ modeIs' = [modeIs EXCEPT ![m] = on]
    /\ UNCHANGED <<feedRow, link, merged, number, person, picked, shown>>

\* The administrator renames, enables or disables.
UpdateMode(m, on) ==
    /\ Change
    /\ Exists(m)
    /\ modeIs' = [modeIs EXCEPT ![m] = on]
    /\ UNCHANGED <<feedRow, link, merged, number, person, picked, shown>>

\* replaceModeFeedsTx: a link to a feed that is gone fails its foreign key, and
\* nothing is saved.
MayLink(ls) == \A f \in Feeds : ls[f] # "none" => feedRow[f] # NoFeedRow
ReplaceModeFeeds(m, ls) ==
    /\ MayLink(ls)
    /\ link' = [link EXCEPT ![m] = ls]
    /\ merged' = Rebuild(feedRow, link', {m})
SetModeFeeds(m, ls) ==
    /\ Change
    /\ Exists(m)
    /\ ReplaceModeFeeds(m, ls)
    /\ UNCHANGED <<modeIs, feedRow, number, person, picked, shown>>
SaveModeWithFeeds(m, on, ls) ==
    /\ modeIs' = [modeIs EXCEPT ![m] = on]
    /\ ReplaceModeFeeds(m, ls)
SaveMode(m, on, ls) ==
    /\ Change
    /\ Exists(m)
    /\ SaveModeWithFeeds(m, on, ls)
    /\ UNCHANGED <<feedRow, number, person, picked, shown>>

\* Before saving, the administrator is shown whom it affects.
TrialOfFeeds(m, on) == modeIs
TrialOf(m, on) == [modeIs EXCEPT ![m] = on]
UsersOf(m) == {u \in People : person[u].mode = m}
PreviewMode(m, on, ls) ==
    Radius(UsersOf(m), person, TrialOf(m, on),
           Rebuild(feedRow, [link EXCEPT ![m] = ls], {m}))

\* The foreign keys delete what belonged to the mode.
UsersMoved(m) ==
    [u \in People |-> IF person[u].mode = m
                      THEN [person[u] EXCEPT !.mode = Fallback]
                      ELSE person[u]]
DeleteMode(m) ==
    /\ Change
    /\ Exists(m) /\ m \notin BuiltIn
    /\ modeIs' = [modeIs EXCEPT ![m] = "none"]
    /\ person' = UsersMoved(m)
    /\ picked' = [u \in People |-> [picked[u] EXCEPT ![m] = {}]]
    /\ link' = [link EXCEPT ![m] = [f \in Feeds |-> "none"]]
    /\ merged' = [merged EXCEPT ![m] = Empty]
    /\ number' = [number EXCEPT ![m] = NoNumbers]
    /\ UNCHANGED <<feedRow, shown>>

----------------------------------------------------------------------------
(* Feeds *)

\* AddFeedWithMode: the new feed has no entries, so there is nothing to merge.
CreateFeed(f, m) ==
    /\ Change
    /\ feedRow[f] = NoFeedRow
    /\ Exists(m)
    /\ feedRow' = [feedRow EXCEPT ![f] = NewRow]
    /\ link' = [link EXCEPT ![m][f] = "include"]
    /\ UNCHANGED <<modeIs, merged, number, person, picked, shown>>

SetFeed(f, row) ==
    /\ feedRow' = [feedRow EXCEPT ![f] = row]
    /\ merged' = RebuildFor(feedRow', f)
    /\ UNCHANGED <<modeIs, link, number, person, picked, shown>>
\* The commit of a synchronisation (FeedSync): numbers for what is new come in
\* a later transaction, if that succeeds.
SyncFeed(f, offers) ==
    /\ Change
    /\ feedRow[f] # NoFeedRow
    /\ SetFeed(f, [feedRow[f] EXCEPT !.offers = offers])
EnableFeed(f) ==
    /\ Change
    /\ feedRow[f] # NoFeedRow
    /\ SetFeed(f, [feedRow[f] EXCEPT !.on = ~@])

\* Deleting a feed prunes every selection no feed backs any more.
Backed(fs, ls, m, k) ==
    \E f \in Linked(ls, m, "include"), s \in Services :
        /\ fs[f] # NoFeedRow /\ fs[f].offers[s] # {}
        /\ k \in {s, CategoryOf[s]}
DeleteFeed(f) ==
    /\ Change
    /\ feedRow[f] # NoFeedRow
    /\ feedRow' = [feedRow EXCEPT ![f] = NoFeedRow]
    /\ link' = [m \in Modes |-> [link[m] EXCEPT ![f] = "none"]]
    /\ merged' = Rebuild(feedRow', link', {m \in Modes : link[m][f] # "none"})
    /\ picked' = [u \in People |-> [m \in Modes |->
          {k \in picked[u][m] : Backed(feedRow', link', m, k)}]]
    /\ UNCHANGED <<modeIs, number, person, shown>>

----------------------------------------------------------------------------
(* Users *)

\* SetUserCatalogModeTx refuses a mode that is disabled or gone.
MayEnter(m) == modeIs[m] = "on"

\* SaveUserSelectionCounts, for one checkbox.
Toggled(u, m, k) ==
    /\ Exists(m)  \* a foreign key
    /\ picked' = [picked EXCEPT ![u][m] =
                     IF k \in @ THEN @ \ {k} ELSE @ \cup {k}]
    /\ UNCHANGED <<modeIs, feedRow, link, merged, number, shown>>
\* The user's own request is for the mode the user was in when it was
\* authenticated, which need not be the user's mode any more.
SaveOwn(u, m, k) ==
    /\ Change
    /\ Toggled(u, m, k)
    /\ UNCHANGED person
\* An administrator's request for another mode switches to it.
SaveFor(u, m, k) ==
    /\ Change
    /\ MayEnter(m)
    /\ Toggled(u, m, k)
    /\ person' = [person EXCEPT ![u].mode = m]

\* The administrator's edit of a user checks, before its transaction, that a
\* mode it changes to is enabled: a foreign key is all that holds when it runs.
Edited(u, on, m) == [person EXCEPT ![u] = [mode |-> m, on |-> on]]
EditUser(u, on, m) ==
    /\ Change
    /\ Exists(m)
    /\ person' = Edited(u, on, m)
    /\ UNCHANGED <<modeIs, feedRow, link, merged, number, picked, shown>>
PreviewEdit(u, on, m) == Radius({u}, Edited(u, on, m), modeIs, merged)

SwitchMode(u, m) ==
    /\ Change
    /\ MayEnter(m)
    /\ person' = [person EXCEPT ![u].mode = m]
    /\ UNCHANGED <<modeIs, feedRow, link, merged, number, picked, shown>>

----------------------------------------------------------------------------
(* Numbers *)

NumbersSet(m, num) ==
    /\ number' = [number EXCEPT ![m] = num]
    /\ UNCHANGED <<modeIs, feedRow, link, merged, person, picked>>

GenerateMode(m) ==
    /\ Exists(m)
    /\ NumbersSet(m, Fill(m))
    /\ UNCHANGED <<shown, changes>>
\* GenerateAllMissingCommunities, asked for from the matrix.
GeneratedAll(m) == IF Exists(m) THEN Fill(m) ELSE number[m]
GenerateAll ==
    /\ number' = [m \in Modes |-> GeneratedAll(m)]
    /\ UNCHANGED <<modeIs, feedRow, link, merged, person, picked, shown,
                   changes>>

\* A batch, in the order of the request: one entry that cannot be set refuses
\* them all.  What was cleared is generated again.
Taken(num, k, n) == \E j \in Keys \ {k} : num[j] = n
AfterEntries(num, batch) ==
    LET after[i \in 0..Len(batch)] ==
          IF i = 0 THEN num
          ELSE [after[i - 1] EXCEPT ![batch[i].key] = batch[i].value]
    IN  after
Applied(num, batch) == AfterEntries(num, batch)[Len(batch)]
Accepted(num, batch) ==
    \A i \in DOMAIN batch : LET e == batch[i] IN
        e.value # 0 => ~Taken(AfterEntries(num, batch)[i - 1], e.key, e.value)
SetNumbers(m, batch) ==
    /\ Change
    /\ Exists(m)
    /\ Accepted(number[m], batch)
    /\ NumbersSet(m, Generated(Applied(number[m], batch), Numbered(m)))
    /\ UNCHANGED shown

Preview(m) == [mode |-> m, before |-> number[m], after |-> Fresh(m)]
ShowPreview(m) ==
    /\ Exists(m)
    /\ shown' = Preview(m)
    /\ UNCHANGED <<catalogTables, changes>>
\* The digest stands for the preview it was computed from.
DigestMatchesAny(m) == TRUE
DigestMatches(m) == Preview(m) = shown
ResetNumbers(m) ==
    /\ Change
    /\ Exists(m)
    /\ shown # NoPreview /\ shown.mode = m
    /\ IF DigestMatches(m)
       THEN NumbersSet(m, Fresh(m)) /\ shown' = NoPreview
       ELSE \* a fresh preview is the answer
            /\ shown' = Preview(m)
            /\ UNCHANGED catalogTables

\* AllModeCommunitySnapshots: generate and read in one transaction; the
\* document has the numbers this step leaves.
Snapshot(m) == IF Exists(m) THEN Fill(m) ELSE number[m]
Export ==
    /\ number' = [m \in Modes |-> Snapshot(m)]
    /\ UNCHANGED <<modeIs, feedRow, link, merged, person, picked, shown,
                   changes>>

----------------------------------------------------------------------------
LinkSets == [Feeds -> {"none", "include", "exclude"}]
Entry == [key : Keys, value : Chosen \cup {0}]
Clearing == {e \in Entry : e.value = 0}
Batches == {<<e>> : e \in Entry}
           \cup {<<d, e>> : d \in Clearing, e \in Entry \ Clearing}

CatalogNext ==
    \/ \E m \in Modes : \/ \E on \in {"on", "off"} : CreateMode(m, on)
                        \/ \E on \in {"on", "off"} : UpdateMode(m, on)
                        \/ \E ls \in LinkSets : SetModeFeeds(m, ls)
                        \/ \E on \in {"on", "off"}, ls \in LinkSets :
                              SaveMode(m, on, ls)
                        \/ DeleteMode(m)
    \/ \E f \in Feeds : \/ \E m \in Modes : CreateFeed(f, m)
                        \/ \E offers \in Offers[f] : SyncFeed(f, offers)
                        \/ EnableFeed(f)
                        \/ DeleteFeed(f)
    \/ \E u \in People, m \in Modes :
          \/ \E k \in Keys : SaveOwn(u, m, k) \/ SaveFor(u, m, k)
          \/ \E on \in BOOLEAN : EditUser(u, on, m)
          \/ SwitchMode(u, m)
    \/ \E m \in Modes : \/ GenerateMode(m)
                        \/ \E batch \in Batches : SetNumbers(m, batch)
                        \/ ShowPreview(m)
                        \/ ResetNumbers(m)
    \/ GenerateAll
    \/ Export

CatalogSpec == CatalogInit /\ [][CatalogNext]_catalogVars

----------------------------------------------------------------------------
(* Properties *)

\* What is announced to a user is what the feeds offer now for what the user
\* picked: of enabled feeds the user's enabled mode includes, without any
\* address of one it excludes, however the merge came about.
DesiredIsCurrent ==
    \A u \in People :
       LET m == person[u].mode
           from(how) == {f \in Feeds : /\ feedRow[f] # NoFeedRow
                                       /\ feedRow[f].on /\ link[m][f] = how}
       IN  Desired(u) =
           {a \in UNION {UNION Range(feedRow[f].offers) :
                         f \in from("include")} :
              /\ person[u].on /\ modeIs[m] = "on"
              /\ \E f \in from("include"), s \in Services :
                    /\ a \in feedRow[f].offers[s]
                    /\ s \in picked[u][m] \/ CategoryOf[s] \in picked[u][m]
              /\ \A f \in from("exclude"), s \in Services :
                    a \notin feedRow[f].offers[s]}

\* Within a mode no two categories or services ever share a number, generated
\* or chosen: a router could not tell them apart.
NumbersAreUnique ==
    \A m \in Modes : \A j, k \in Keys :
       j # k /\ number[m][j] # 0 => number[m][j] # number[m][k]

\* A number, once given, changes only by an administrator's request for its
\* mode: no synchronisation, no feed or link that comes or goes and no
\* generation renumbers what routers have in their policies.
NumbersAreStable ==
    [][\A m \in Modes, k \in Keys :
         number[m][k] # 0 /\ number'[m][k] # number[m][k]
         => \/ ResetNumbers(m)
            \/ DeleteMode(m)
            \/ \E batch \in Batches :
                  /\ SetNumbers(m, batch)
                  /\ \E i \in DOMAIN batch : batch[i].key = k]_catalogVars

\* Both: numbers are what routers can rely on.
NumbersAreSound == []NumbersAreUnique /\ NumbersAreStable

\* A reset does exactly what the preview said that the administrator saw last,
\* starting from the numbers it showed.
ResetIsReviewed ==
    [][\A m \in Modes :
         ResetNumbers(m) /\ number' # number
         => /\ number[m] = shown.before
            /\ number'[m] = shown.after]_catalogVars

\* The document an export gives has a number for every category and service
\* of every mode, although a synchronisation publishes new services before
\* they are numbered.
ExportIsComplete ==
    \A m \in LiveModes, f \in Feeds, s \in Services :
       (/\ link[m][f] = "include"
        /\ feedRow[f] # NoFeedRow
        /\ feedRow[f].offers[s] # {})
       => Snapshot(m)[s] # 0 /\ Snapshot(m)[CategoryOf[s]] # 0

\* What a preview says of a save is what the save does to what users are
\* announced, and to users the preview does not list it does nothing.
Announces(u) == Difference(Desired(u), Desired(u)')
PreviewIsTrue ==
    [][/\ \A m \in LiveModes : LET on == modeIs'[m]
                                 ls == link'[m]
                                 said == PreviewMode(m, on, ls)
             IN  SaveMode(m, on, ls) => \A u \in People :
                    Announces(u) = IF u \in DOMAIN said THEN said[u]
                                   ELSE [lost |-> FALSE, changed |-> FALSE]
       /\ \A u \in People : LET on == person'[u].on
                                m == person'[u].mode
             IN  EditUser(u, on, m) => Announces(u) = PreviewEdit(u, on, m)[u]
      ]_catalogVars

\* Generating what is missing from the matrix leaves nothing missing there.
MatrixIsCleared ==
    [][GenerateAll => \A m \in LiveModes : Missing(m)' = {}]_catalogVars

\* The estimate the list of communities shows for what it lists is the number
\* a reset would give, as long as no category fills its part of the grid.
EstimateIsReset ==
    \A m \in LiveModes :
       (\A c \in Categories : Len(ServicesOf(Numbered(m), c)) < Gap)
       => \A s \in NumberedEnabled(m) : \A k \in {s, CategoryOf[s]} :
             Estimate(m, k) = Fresh(m)[k]

\* A mode that is gone has left nothing: no user in it, no selection, link,
\* entry or number that a later mode of the same id would inherit.
GoneModesAreEmpty ==
    \A m \in Modes \ LiveModes :
       /\ \A u \in People : person[u].mode # m /\ picked[u][m] = {}
       /\ \A f \in Feeds : link[m][f] = "none"
       /\ merged[m] = Empty
       /\ number[m] = NoNumbers

\* The tables hold what their columns allow.
CatalogTypeOK ==
    /\ modeIs \in [Modes -> {"none", "off", "on"}]
    /\ feedRow \in [Feeds -> [on : BOOLEAN,
                              offers : [Services -> SUBSET Addresses]]
                             \cup {NoFeedRow}]
    /\ link \in [Modes -> LinkSets]
    /\ \A m \in Modes : number[m] \in [Keys -> Nat]
    /\ person \in [People -> [mode : Modes, on : BOOLEAN]]
    /\ picked \in [People -> [Modes -> SUBSET Keys]]
==============================================================================
