---------------------------- MODULE RouteFilter ----------------------------
(***************************************************************************)
(* From feeds to announced prefixes: what exclude feeds take away          *)
(* (prefixfilter/exclude.go, store/mode_entries.go), what route filters    *)
(* leave (prefixfilter/filter.go, store/routes.go), and what the program   *)
(* says of it: counts (store/catalog.go), previews (store/blastradius.go), *)
(* the address lookup (web/cidr_debug.go) and the form in which networks   *)
(* of users are to be given (prefixfilter/aggregate.go).                   *)
(*                                                                         *)
(* A prefix is a block of 2^(Width - bits) addresses of a family.  There   *)
(* is one mode, and every user is enabled: Catalog models modes, links and *)
(* selections.                                                             *)
(*                                                                         *)
(* An operator that no action uses, placed before one of the same shape,   *)
(* is a wrong version of it: it is there to show which properties notice.  *)
(***************************************************************************)
EXTENDS Integers, Sequences, FiniteSetsExt, SequencesExt

CONSTANTS
    Families,    \* numbers that stand for IPv4 and IPv6
    Width,       \* bits of an address
    Users, Services,
    MaxPrefixes, \* DefaultMaxPrefixes
    Threshold,   \* of normalize
    Contents, Exclusions, \* what feeds may carry
    Filters,     \* pairs of lists, [allow, deny]
    NetworkLists, \* networks an administrator may enter for a user
    InitialContent, InitialFilters,
    NoAdvice,
    MaxEdits     \* bound

ASSUME FilterAssumption ==
    /\ IsFiniteSet(Families) /\ Families \subseteq Nat
    /\ {Width, MaxPrefixes, Threshold, MaxEdits} \subseteq Nat

VARIABLES
    db,   \* the tables:
          \*   content   the prefixes of a service in the include feeds
          \*   excluded  the prefixes of the exclude feeds
          \*   global    settings filter_allow and filter_deny
          \*   own       user_route_filters
          \*   mode      users.filter_mode
          \*   chosen    the services a user has selected
    announced, \* the prefixes the reconciliation gave the BGP manager last
    current,  \* if they are those of the tables: it may have been refused
    advice,   \* what was said of the last list of networks: [of, is]
    edits

filterVars == <<db, announced, current, advice, edits>>

----------------------------------------------------------------------------
(* Prefixes *)

\* Powers of two; how many addresses a family has.
Pow[n \in 0..Width] == IF n = 0 THEN 1 ELSE 2 * Pow[n - 1]
Space == Pow[Width]

AllPrefixes ==
    {p \in [fam : Families, addr : 0..(Space - 1), bits : 0..Width] :
        p.addr % Pow[Width - p.bits] = 0}
\* The allow and the deny list of a filter.
FilterLists == [allow : SUBSET AllPrefixes, deny : SUBSET AllPrefixes]

ASSUME FilterData ==
    /\ Contents \cup Exclusions \cup NetworkLists \subseteq SUBSET AllPrefixes
    /\ Filters \cup {InitialFilters} \subseteq FilterLists
    /\ InitialContent \in [Services -> SUBSET AllPrefixes]

Size(p) == Pow[Width - p.bits]
lastAddr(p) == p.addr + Size(p) - 1

\* Prefix.Contains of the first address of another prefix.
Holds(p, q) ==
    p.fam = q.fam /\ p.addr <= q.addr /\ q.addr <= lastAddr(p)
Parent(p, b) ==
    [p EXCEPT !.addr = @ - (@ % Pow[Width - b]), !.bits = b]

\* The other half of the parent of a prefix.
Sibling(p) ==
    [p EXCEPT !.addr = IF @ % (2 * Size(p)) = 0 THEN @ + Size(p)
                       ELSE @ - Size(p)]

\* The elements of a set in the order of their ranks, which differ.
Sorted(rank) ==
    [i \in 1..Cardinality(DOMAIN rank) |->
        CHOOSE p \in DOMAIN rank :
            Cardinality({q \in DOMAIN rank : rank[q] < rank[p]}) = i - 1]
SortedByAddress(ps) ==
    Sorted([p \in ps |->
              (p.fam * Space + p.addr) * (Width + 1) + p.bits])
SortedByLength(ps) ==
    Sorted([p \in ps |->
              (p.fam * (Width + 1) + p.bits) * Space + p.addr])

----------------------------------------------------------------------------
(* prefixfilter: normalize drops what another prefix covers, and looks for *)
(* that in one of two ways                                                 *)

\* A prefix is kept unless it has a parent, at least so many bits shorter,
\* that was kept before.
Uncovered(ps, shorter) ==
    LET sorted == SortedByLength(ps)
        last == Len(sorted)
        kept[i \in 0..last] ==
          IF i = 0 THEN {}
          ELSE LET p == sorted[i]
                   before == kept[i - 1]
               IN  IF \E b \in 0..(p.bits - shorter) : Parent(p, b) \in before
                   THEN before ELSE before \cup {p}
    IN  kept[last]
normalizeSimple(ps) == Uncovered(ps, 1)
normalizeWithTrie(ps) == Uncovered(ps, 0)
Normalized(ps) ==
    IF Cardinality(ps) <= Threshold THEN normalizeSimple(ps)
    ELSE normalizeWithTrie(ps)

\* What is left of p without d: where d lies in p, the halves that are passed
\* on the way to it.
Halves(p, d) == {Sibling(Parent(d, b)) : b \in (p.bits + 1)..d.bits}
SubtractInside(p, d) ==
    IF Holds(p, d) THEN Halves(p, d) ELSE {p}
Subtract(p, d) ==
    IF Holds(d, p) /\ d.bits <= p.bits THEN {}
    ELSE IF Holds(p, d) THEN Halves(p, d) ELSE {p}

\* Where the first case holds the allowed prefix may be the wider one.
Narrowed(p, q) ==
    IF Holds(p, q) THEN {q} ELSE IF Holds(q, p) THEN {p} ELSE {}
Intersected(input, allow) ==
    LET ps == Normalized(input)
        qs == Normalized(allow)
    IN  IF qs = {} THEN ps
        ELSE Normalized(UNION {Narrowed(p, q) : p \in ps, q \in qs})

\* Apply: refused if there are too many prefixes at any time.
Limited(ps) == [ok |-> Cardinality(ps) <= MaxPrefixes, out |-> ps]
Denied(d, q) ==
    IF d.ok THEN Limited(UNION {Subtract(p, q) : p \in d.out}) ELSE d
Apply(input, lists) ==
    LET deny == SortedByLength(Normalized(lists.deny))
        last == Len(deny)
        after[i \in 0..last] ==
          IF i = 0 THEN Limited(Intersected(input, lists.allow))
          ELSE Denied(after[i - 1], deny[i])
    IN  after[last]

\* ExcludeSet.Subtract: from the last exclude that starts in or before p, back
\* to the first that ends before it.
Punch(p, d, e) ==
    IF d.done \/ lastAddr(e) < p.addr THEN [d EXCEPT !.done = TRUE]
    ELSE [d EXCEPT !.out = UNION {Subtract(f, e) : f \in d.out}]
Punched(p, excludes) ==
    LET run == SortedByAddress({e \in excludes :
                   e.fam = p.fam /\ e.addr <= lastAddr(p)})
        last == Len(run)
        after[i \in 0..last] ==
          IF i = 0 THEN [done |-> FALSE, out |-> {p}]
          ELSE Punch(p, after[i - 1], run[last + 1 - i])
    IN  after[last].out

----------------------------------------------------------------------------
(* prefixfilter: Aggregate *)

RangeOf(p) == [from |-> p.addr, to |-> lastAddr(p)]
\* The last range is still open, those in done are not.
Opened(d, r) == [done |-> d.done \cup {d.last}, last |-> r]
MergedIfOverlapping(d, r) ==
    IF r.from <= d.last.to THEN [d EXCEPT !.last.to = Max({@, r.to})]
    ELSE Opened(d, r)
Merged(d, r) ==
    IF r.from <= d.last.to + 1 THEN [d EXCEPT !.last.to = Max({@, r.to})]
    ELSE Opened(d, r)
RangesOf(ps) ==
    LET sorted == SortedByAddress(ps)
        last == Len(sorted)
        after[i \in 1..last] ==
          IF i = 1 THEN [done |-> {}, last |-> RangeOf(sorted[1])]
          ELSE Merged(after[i - 1], RangeOf(sorted[i]))
        merged == after[last]
    IN  IF ps = {} THEN {} ELSE merged.done \cup {merged.last}

\* rangeToPrefixes: the largest block that fits, and so on.
HostBits(from, to) ==
    Max({h \in 0..Width : from % Pow[h] = 0 /\ Pow[h] <= to - from + 1})
Blocks(f, r) ==
    LET rest[from \in r.from..(r.to + 1)] ==
            IF from > r.to THEN {}
            ELSE LET h == HostBits(from, r.to)
                 IN  {[fam |-> f, addr |-> from, bits |-> Width - h]}
                     \cup rest[from + Pow[h]]
    IN  rest[r.from]
AggregatedFamily(f, ps) ==
    UNION {Blocks(f, r) : r \in RangesOf({p \in ps : p.fam = f})}
Aggregate(ps) == UNION {AggregatedFamily(f, ps) : f \in Families}

----------------------------------------------------------------------------
(* What is announced, in the state t of the tables *)

\* RebuildModeEntries leaves default routes alone.
Entries(t, svc) ==
    LET excludes == Normalized(t.excluded)
    IN  UNION {IF p.bits = 0 THEN {p} ELSE Punched(p, excludes) :
                  p \in t.content[svc]}

\* In mode "global" the lists of the user are not used.
Effective(m, theirs, mine) ==
    CASE m = "override" -> mine
      [] m = "extend"   -> [allow |-> theirs.allow \cup mine.allow,
                            deny  |-> theirs.deny \cup mine.deny]
      [] m = "global"   -> theirs
FiltersOf(t, u) == Effective(t.mode[u], t.global, t.own[u])

\* DesiredPrefixes, for one user; no default route is announced.
Routes(t, u) ==
    UNION {{[prefix |-> p, svc |-> svc] :
               p \in {e \in Entries(t, svc) : e.bits # 0}} :
           svc \in t.chosen[u]}
Desired(t, u) == Apply({r.prefix : r \in Routes(t, u)}, FiltersOf(t, u))

\* findBestMatch: of the routes that contain a prefix one of the longest.
BestMatches(p, routes) ==
    LET over == {r \in routes :
                    Holds(r.prefix, p) /\ r.prefix.bits <= p.bits}
    IN  {r \in over : \A q \in over : q.prefix.bits <= r.prefix.bits}

----------------------------------------------------------------------------
(* What is said of it *)

Counts(ps) == [f \in Families |-> Cardinality({p \in ps : p.fam = f})]

\* queryPrefixes skips default routes, too.
Queried(ps) == {p \in ps : p.bits # 0}
CountPrefixes(t, u, svcs) ==
    Apply(Queried(UNION {Entries(t, svc) : svc \in svcs}), FiltersOf(t, u))

\* What is shown for services that are ticked, and how it differs from those
\* that are saved.
apiUserCountPrefixes(t, u, svcs) ==
    LET ticked == CountPrefixes(t, u, svcs)
        saved  == CountPrefixes(t, u, t.chosen[u])
    IN  [ok    |-> ticked.ok /\ saved.ok,
         count |-> Counts(ticked.out),
         delta |-> [f \in Families |->
                      Counts(ticked.out)[f] - Counts(saved.out)[f]]]

\* PreviewGlobalRouteFilterChange
UsersOfGlobal(t) == {u \in Users : t.mode[u] = "global"}
UsersAffected(t) == {u \in Users : t.mode[u] # "override"}
Impact(before, after) ==
    [before |-> Counts(before), after |-> Counts(after),
     lost |-> before \ after # {}, changed |-> before # after]
previewBlastRadius(t, users, trial) ==
    [u \in users |-> Impact(Desired(t, u).out, Desired(trial, u).out)]
GlobalChanged(t, lists) == [t EXCEPT !.global = lists]
PreviewGlobal(t, lists) ==
    previewBlastRadius(t, UsersAffected(t), GlobalChanged(t, lists))

\* The form of a user changes the mode of his filters and the filters at once.
UserChanged(t, u, m, lists) == [t EXCEPT !.mode[u] = m, !.own[u] = lists]
PreviewUserEdit(t, u, m, lists) ==
    previewBlastRadius(t, {u}, UserChanged(t, u, m, lists))

\* How many addresses ranges cover together; the last of them is still open.
Closed(d) == d.all + d.to - d.from + 1
ExtendedToLast(d, r) ==
    IF r.from <= d.to + 1 THEN [d EXCEPT !.to = r.to]
    ELSE [all |-> Closed(d), from |-> r.from, to |-> r.to]
Extended(d, r) ==
    IF r.from <= d.to + 1 THEN [d EXCEPT !.to = Max({@, r.to})]
    ELSE [all |-> Closed(d), from |-> r.from, to |-> r.to]
Coverage(ranges) ==
    LET sorted == Sorted([r \in ranges |-> r.from * Space + r.to])
        last == Len(sorted)
        after[i \in 1..last] ==
          IF i = 1 THEN [all |-> 0, from |-> sorted[1].from, to |-> sorted[1].to]
          ELSE Extended(after[i - 1], sorted[i])
    IN  IF ranges = {} THEN 0 ELSE Closed(after[last])

\* The parts of prefixes that lie in the prefix asked for.
Overlaps(target, ps) ==
    {[from |-> Max({p.addr, target.addr}),
      to |-> Min({lastAddr(p), lastAddr(target)})] :
        p \in {q \in ps : Holds(target, q) \/ Holds(q, target)}}
Offered(t, svc) == Queried(Entries(t, svc))
Matching(t, target) ==
    {svc \in Services : Overlaps(target, Offered(t, svc)) # {}}

\* userCoverage: the filters are applied to the matching services only.
Lookup(t, u, target) ==
    LET mine   == t.chosen[u] \cap Matching(t, target)
        ps     == {p \in UNION {Offered(t, svc) : svc \in mine} :
                     p.fam = target.fam}
        before == Coverage(Overlaps(target, ps))
        left   == Apply(ps, FiltersOf(t, u))
        after  == IF before = 0 THEN 0
                  ELSE Coverage(Overlaps(target, left.out))
    IN  [ok     |-> before = 0 \/ left.ok,
         covers |-> [svc \in Matching(t, target) |->
                       Coverage(Overlaps(target, Offered(t, svc)))],
         before |-> before,
         after  |-> after,
         tunnel |-> after > 0]

----------------------------------------------------------------------------
\* The reconciliation that follows every change, and the start.  What is
\* refused for one user is refused for all, and so are too many prefixes
\* together.
Reconciled(desired, before) ==
    LET ok == /\ \A u \in Users : desired[u].ok
              /\ Cardinality(UNION {desired[u].out : u \in Users})
                   <= MaxPrefixes
    IN  [ok  |-> ok,
         out |-> IF ok THEN [u \in Users |-> desired[u].out] ELSE before]
Reconciliation(t, before) ==
    Reconciled([u \in Users |-> Desired(t, u)], before)

FilterInit ==
    /\ db = [content  |-> InitialContent,
             excluded |-> {},
             global   |-> InitialFilters,
             own      |-> [u \in Users |-> [allow |-> {}, deny |-> {}]],
             mode     |-> [u \in Users |-> "global"],
             chosen   |-> [u \in Users |-> Services]]
    /\ LET first == Reconciliation(db, [u \in Users |-> {}])
       IN  current = first.ok /\ announced = first.out
    /\ advice = NoAdvice /\ edits = 0

Edit(t) ==
    /\ edits < MaxEdits /\ edits' = edits + 1
    /\ db' = t
    /\ LET next == Reconciliation(t, announced)
       IN  current' = next.ok /\ announced' = next.out
    /\ UNCHANGED advice

SyncInclude(svc, ps)  == Edit([db EXCEPT !.content[svc] = ps])
SyncExclude(ps)       == Edit([db EXCEPT !.excluded = ps])
SetGlobal(lists)      == Edit(GlobalChanged(db, lists))
SetOwn(u, lists)      == Edit([db EXCEPT !.own[u] = lists])
EditUser(u, m, lists) == Edit(UserChanged(db, u, m, lists))
Choose(u, svcs)       == Edit([db EXCEPT !.chosen[u] = svcs])

\* Networks are saved if they are as Aggregate has them; what it has is said.
EnterNetworks(given) ==
    /\ edits < MaxEdits /\ edits' = edits + 1
    /\ advice' = [of |-> given, is |-> Aggregate(given)]
    /\ UNCHANGED <<db, announced, current>>

FilterNext ==
    \/ \E svc \in Services, ps \in Contents : SyncInclude(svc, ps)
    \/ \E ps \in Exclusions : SyncExclude(ps)
    \/ \E lists \in Filters : SetGlobal(lists)
    \/ \E u \in Users, lists \in Filters :
          \/ SetOwn(u, lists)
          \/ \E m \in {"global", "extend", "override"} : EditUser(u, m, lists)
    \/ \E u \in Users, svcs \in SUBSET Services : Choose(u, svcs)
    \/ \E given \in NetworkLists : EnterNetworks(given)

FilterSpec == FilterInit /\ [][FilterNext]_filterVars

----------------------------------------------------------------------------
(* Properties, in terms of addresses *)

Addresses(ps) ==
    UNION {{<<p.fam, a>> : a \in p.addr..lastAddr(p)} : p \in ps}
OfferedTo(u) ==
    (UNION {Addresses(Queried(db.content[svc])) : svc \in db.chosen[u]})
        \ Addresses(db.excluded)
LeftTo(u) ==
    LET lists == FiltersOf(db, u)
    IN  {a \in OfferedTo(u) :
            /\ lists.allow # {} => a \in Addresses(lists.allow)
            /\ a \notin Addresses(lists.deny)}

\* A prefix starts where a wider prefix that is allowed starts, see
\* AllowOnlyRestricts.
Widened(u) ==
    \E r \in Routes(db, u), q \in FiltersOf(db, u).allow :
        Holds(r.prefix, q) /\ q.bits < r.prefix.bits

\* A user is announced the addresses of the services he selected, without what
\* is excluded or denied and within what is allowed, and no prefix twice or
\* inside of another; the service a prefix is announced for is one he selected
\* that offers all of it.
\* (prefixfilter/filter.go, prefixfilter/exclude.go; store/routes.go)
AnnouncedIsExact ==
    \A u \in Users : current /\ ~Widened(u) =>
        /\ Addresses(announced[u]) = LeftTo(u)
        /\ \A p, q \in announced[u] : p # q => ~Holds(p, q)
        /\ LET routes == Routes(db, u) IN \A p \in announced[u] :
              LET named == BestMatches(p, routes)
              IN  /\ named # {}
                  /\ \A r \in named :
                        Addresses({p}) \subseteq Addresses(Entries(db, r.svc))

\* The same of allow lists, for every list: they add nothing.
AllowOnlyRestricts ==
    \A u \in Users : current => Addresses(announced[u]) \subseteq OfferedTo(u)

\* The numbers a user is shown for a selection.
CountIsDone ==
    \A u \in Users :
        db'.chosen[u] # db.chosen[u] =>
            LET said == apiUserCountPrefixes(db, u, db'.chosen[u])
                then == Counts(announced'[u])
            IN  /\ said.ok /\ said.count = then
                /\ said.delta = [f \in Families |->
                                   then[f] - Counts(announced[u])[f]]

\* The preview of new global filters, or of the form of a user: those it does
\* not name keep what they have.
Foreseen(said) ==
    \A u \in Users : IF u \in DOMAIN said
                    THEN said[u] = Impact(announced[u], announced'[u])
                    ELSE announced'[u] = announced[u]
PreviewIsDone ==
    /\ db'.global # db.global => Foreseen(PreviewGlobal(db, db'.global))
    /\ \A u \in Users :
          (db'.mode[u] # db.mode[u] \/ db'.own[u] # db.own[u]) =>
             Foreseen(PreviewUserEdit(db, u, db'.mode[u], db'.own[u]))

\* What is said of a change before it is made is what it does: the numbers of
\* a selection, also as a difference, are those of what is then announced,
\* and a preview says of every user exactly what he loses and gains.
\* (store/catalog.go, CountPrefixes; store/blastradius.go;
\* store/routes.go, DesiredPrefixes)
PromisedIsDone ==
    [][current /\ current' => CountIsDone /\ PreviewIsDone]_filterVars

\* The lookup gives the share of the addresses asked for that every service
\* offers, that the user selected, and that are announced to him.
\* (web/cidr_debug.go, userCoverage)
LookupIsTrue ==
    \A u \in Users : current /\ ~Widened(u) => \A target \in AllPrefixes :
        LET said  == Lookup(db, u, target)
            asked == Addresses({target})
            got   == asked \cap Addresses(announced[u])
        IN  said.ok =>
              /\ \A svc \in Services :
                    LET there == asked \cap Addresses(Offered(db, svc))
                    IN  IF svc \in DOMAIN said.covers
                        THEN said.covers[svc] = Cardinality(there)
                        ELSE there = {}
              /\ said.before = Cardinality(asked \cap OfferedTo(u))
              /\ said.after = Cardinality(got)
              /\ said.tunnel <=> got # {}

\* Networks are to be given as the largest blocks that cover the same
\* addresses.  (prefixfilter/aggregate.go)
AdviceIsMinimal ==
    advice # NoAdvice =>
        LET all == Addresses(advice.of)
        IN  advice.is =
              {p \in AllPrefixes :
                  /\ Addresses({p}) \subseteq all
                  /\ p.bits > 0 =>
                       ~(Addresses({Parent(p, p.bits - 1)}) \subseteq all)}
=============================================================================
