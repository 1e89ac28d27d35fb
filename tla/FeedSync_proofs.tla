--------------------------- MODULE FeedSync_proofs ---------------------------
(***************************************************************************)
(* Proofs about FeedSync, for any number of row ids, configurations,       *)
(* entries and requests, and every bound.                                  *)
(***************************************************************************)
EXTENDS FeedSync, TLAPS

----------------------------------------------------------------------------
(* The inductive invariant *)

\* The stages in which a worker has the copy of a row, a mutex of its own
\* choice, that mutex locked, and its feed marked.
Copying == {"try", "admit", "recheck", "lock", "mark", "run", "fail", "done",
            "failed"}
Holding == Copying \ {"try"}
Locked  == Holding \ {"lock"}
Marked  == {"recheck", "run", "fail", "done", "failed"}

\* Where workers can be: the loop is not admitted, and a request that goes
\* through a list is the one in flight.
PcInv ==
    /\ \A w \in Workers :
          /\ cur[w] # NoFeed <=> pc[w] \in Copying
          /\ mine[w] # NoMutex <=> pc[w] \in Holding
    /\ pc[Loop] \notin {"try", "admit", "recheck", "check"}
    /\ \A w \in Requests :
          /\ pc[w] \in {"check", "list", "next", "lock"} => inFlight = w
          /\ inFlight = w => pc[w] \notin {"idle", "try", "admit", "recheck"}

\* Mutexes are held by one worker each.
LockInv ==
    /\ \A w \in Workers : pc[w] \in Locked => mine[w] \in held
    /\ \A v, w \in Workers :
          v # w /\ pc[v] \in Locked /\ pc[w] \in Locked => mine[v] # mine[w]

\* Whatever is held or marked, somebody will release.
LeftInv ==
    /\ held \subseteq {mine[w] : w \in Workers}
    /\ \A i \in syncing : \E w \in Workers : pc[w] \in Marked \cup {"mark"}
                                             /\ cur[w].id = i

\* Rows have their own id, and nobody knows one that was not given yet.
IdInv ==
    /\ \A i \in Present(feeds) : feeds[i].id = i /\ i <= created
    /\ \A w \in Workers : cur[w] # NoFeed => cur[w].id <= created
    /\ \A w \in Workers : \A f \in todo[w] : f.id <= created
    /\ forget <= created

\* The feed of row i is the first that had this id.
Original(i) == feeds[i] # NoFeed /\ feeds[i].serial = i

\* While a feed is the first of its id, all who synchronise it use the mutex
\* of the map.
MutexInv ==
    \A i \in Ids : Original(i) =>
        /\ forget # i
        /\ \A w \in Workers :
              pc[w] \in Holding /\ cur[w].id = i => mine[w] = mutex[i]

\* A client watches such a feed until its own synchronisation has ended.
WatchInv ==
    \A w \in Requests :
        Running(w) /\ inFlight # w /\ Original(cur[w].id)
        => cur[w].id \in watch[w]

ModeInv == mode = Merge(feeds)

IInv ==
    /\ TypeOK /\ PcInv /\ LockInv /\ LeftInv /\ IdInv /\ MutexInv /\ WatchInv
    /\ EntriesAreCurrent /\ ModeInv /\ FeedsAreAnnounced

----------------------------------------------------------------------------
(* Types *)

LEMMA Names == /\ Loop \in Workers
               /\ Requests \subseteq Workers
               /\ NoFeed \notin Feed
               /\ NoMutex \notin Mutexes
               /\ Loop \notin Requests
               /\ NoOne \notin Requests
               /\ Ids \subseteq Nat \ {0}
               /\ MaxFeeds \in Nat /\ MaxEdits \in Nat /\ MaxStarts \in Nat
BY FeedSyncAssumption, FeedNames DEF Workers

LEMMA NewFeedType ==
    ASSUME NEW i \in Ids, NEW n \in 1..MaxFeeds, NEW c \in Config
    PROVE  NewFeed(i, n, c) \in Feed
BY DEF NewFeed, Feed

LEMMA RowType ==
    ASSUME TypeOK, NEW i \in Ids, feeds[i] # NoFeed
    PROVE  feeds[i] \in Feed
BY DEF TypeOK

LEMMA CopyType ==
    ASSUME TypeOK, NEW w \in Workers, cur[w] # NoFeed
    PROVE  /\ cur[w] \in Feed
           /\ cur[w].id \in Ids
           /\ cur[w].config \in Config
           /\ cur[w].serial \in 1..MaxFeeds
BY DEF TypeOK, Feed

LEMMA MergeType ==
    ASSUME feeds' \in [Ids -> Feed \cup {NoFeed}]
    PROVE  Rebuilt(feeds') \subseteq Entries
<1>1. \A i \in Enabled(feeds') : feeds'[i] \in Feed
  BY DEF Enabled, Present
<1>2. \A i \in Enabled(feeds') : feeds'[i].entries \subseteq Entries
  BY <1>1 DEF Feed
<1>. QED
  BY <1>2 DEF Rebuilt, Merge

LEMMA TypeInit == Init => TypeOK
<1> SUFFICES ASSUME Init PROVE TypeOK
  OBVIOUS
<1>1. feeds \in [Ids -> Feed \cup {NoFeed}]
  <2>1. PICK c \in Config :
            feeds = [i \in Ids |-> IF i <= created THEN NewFeed(i, i, c)
                                   ELSE NoFeed]
    BY DEF Init
  <2>2. \A i \in Ids : i <= created => i \in 1..MaxFeeds
    BY Names DEF Init
  <2>3. \A i \in Ids : i <= created => NewFeed(i, i, c) \in Feed
    BY <2>2, NewFeedType
  <2>. QED
    BY <2>1, <2>3
<1>. QED
  BY <1>1, Names DEF Init, InitProcess, TypeOK, Stages

\* The rows after a commit, an error and an edit.
Stored(f, es, c) ==
    [f EXCEPT !.entries = es, !.from = c, !.synced = TRUE, !.error = NoFeed]
Failed(f, c) == [f EXCEPT !.error = c]

LEMMA CommitRow ==
    ASSUME NEW f \in Feed, NEW es \in SUBSET Entries, NEW c \in Config
    PROVE  /\ Stored(f, es, c) \in Feed
           /\ Stored(f, es, c).id = f.id
           /\ Stored(f, es, c).serial = f.serial
           /\ Stored(f, es, c).from = c
           /\ Stored(f, es, c).config = f.config
           /\ Stored(f, es, c).entries = es
           /\ Stored(f, es, c).synced
BY DEF Stored, Feed

LEMMA ErrorRow ==
    ASSUME NEW f \in Feed, NEW c \in Config
    PROVE  /\ Failed(f, c) \in Feed
           /\ Failed(f, c).id = f.id
           /\ Failed(f, c).serial = f.serial
           /\ Failed(f, c).from = f.from
           /\ Failed(f, c).config = f.config
           /\ Failed(f, c).entries = f.entries
           /\ Failed(f, c).enabled = f.enabled
           /\ Failed(f, c).synced = f.synced
BY DEF Failed, Feed

LEMMA EditRow ==
    ASSUME NEW f \in Feed, NEW c \in Config, NEW on \in BOOLEAN
    PROVE  Updated(f, c, on) \in Feed
<1>1. f.id \in Ids /\ f.serial \in 1..MaxFeeds
  BY DEF Feed
<1>2. [f EXCEPT !.enabled = on] \in Feed
  BY DEF Feed
<1>3. [NewFeed(f.id, f.serial, c) EXCEPT !.enabled = on] \in Feed
  BY <1>1, NewFeedType DEF Feed
<1>. QED
  BY <1>2, <1>3 DEF Updated

LEMMA SyncType ==
    ASSUME TypeOK, PcInv, NEW w \in Workers, Sync(w)
    PROVE  TypeOK'
<1> USE Names DEF At, Go, TablesStay, tables, syncer, worker, editor
<1>0. pc[w] \in Copying => cur[w] # NoFeed
  BY DEF PcInv
<1>1. ASSUME NEW f \in todo[w], Take(w, f) PROVE TypeOK'
  <2>1. f \in Feed
    BY DEF TypeOK
  <2>2. f.id \in Ids
    BY <2>1 DEF Feed
  <2>. QED
    BY <1>1, <2>1, <2>2 DEF Take, MutexMade, TypeOK, Stages
<1>2. CASE Lock(w)
  <2>1. mine[w] \in Mutexes
    BY <1>2 DEF Lock, PcInv, TypeOK, Holding, Copying
  <2>. QED
    BY <1>2, <2>1 DEF Lock, TypeOK, Stages
<1>3. CASE Mark(w)
  <2>1. cur[w].id \in Ids
    BY <1>0, <1>3, CopyType DEF Mark, Copying
  <2>. QED
    BY <1>3, <2>1 DEF Mark, TypeOK, Stages
<1>4. CASE Commit(w)
  <2>1. cur[w].id \in Ids /\ cur[w].config \in Config
    BY <1>0, <1>4, CopyType DEF Commit, Copying
  <2>2. PICK es \in SUBSET Entries :
          LET i == cur[w].id
              f == feeds[i]
          IN  IF Unchanged(f, w)
              THEN /\ feeds' = [feeds EXCEPT ![i] =
                        [f EXCEPT !.entries = es, !.from = cur[w].config,
                                  !.synced = TRUE, !.error = NoFeed]]
                   /\ replay' = [replay EXCEPT ![i] = Replayed(f, @, es)]
                   /\ mode' = Rebuilt(feeds')
              ELSE UNCHANGED tables
    BY <1>4 DEF Commit
  <2>3. CASE ~Unchanged(feeds[cur[w].id], w)
    BY <1>4, <2>2, <2>3 DEF Commit, TypeOK, Stages
  <2>4. CASE Unchanged(feeds[cur[w].id], w)
    <3>1. feeds[cur[w].id] \in Feed
      BY <2>1, <2>4, RowType DEF Unchanged, SameButHosts
    <3>2. feeds' \in [Ids -> Feed \cup {NoFeed}]
      <4>1. Stored(feeds[cur[w].id], es, cur[w].config) \in Feed
        BY <2>1, <3>1, CommitRow
      <4>. QED
        BY <2>1, <2>2, <2>4, <4>1 DEF Stored, TypeOK
    <3>3. mode' \subseteq Entries
      BY <2>2, <2>4, <3>2, MergeType
    <3>4. Replayed(feeds[cur[w].id], replay[cur[w].id], es) \subseteq Entries
      BY <2>1, <3>1 DEF Replayed, TypeOK, Feed
    <3>5. replay' \in [Ids -> SUBSET Entries]
      BY <2>1, <2>2, <2>4, <3>4 DEF TypeOK
    <3>. QED
      BY <1>4, <3>2, <3>3, <3>5 DEF Commit, TypeOK, Stages
  <2>. QED
    BY <2>3, <2>4
<1>5. CASE Fail(w)
  BY <1>5 DEF Fail, TypeOK, Stages
<1>6. CASE PersistError(w)
  <2>1. cur[w].id \in Ids /\ cur[w].config \in Config
    BY <1>0, <1>6, CopyType DEF PersistError, Copying
  <2>2. feeds' \in [Ids -> Feed \cup {NoFeed}]
    <3>1. CASE ~GetsError(feeds[cur[w].id], w)
      BY <1>6, <3>1 DEF PersistError, TypeOK
    <3>2. CASE GetsError(feeds[cur[w].id], w)
      <4>1. feeds[cur[w].id] \in Feed
        BY <2>1, <3>2, RowType DEF GetsError, SameButHosts
      <4>. QED
        BY <1>6, <2>1, <3>2, <4>1, ErrorRow DEF PersistError, Failed, TypeOK
    <3>. QED
      BY <3>1, <3>2
  <2>. QED
    BY <1>6, <2>2 DEF PersistError, TypeOK, Stages
<1>7. CASE Finish(w)
  <2>1. cur[w].id \in Ids /\ cur[w].serial \in 0..MaxFeeds
    BY <1>0, <1>7, CopyType DEF Finish, Copying
  <2>2. Next1(w) \in Stages
    BY DEF Next1, Stages
  <2>3. attempted' \in [Ids -> 0..MaxFeeds]
    BY <1>7, <2>1 DEF Finish, TypeOK
  <2>4. watch' \in [Workers -> SUBSET Ids]
    BY <1>7 DEF Finish, TypeOK
  <2>. QED
    BY <1>7, <2>2, <2>3, <2>4 DEF Finish, TypeOK
<1>8. CASE List(w)
  <2>1. {feeds[i] : i \in Enabled(feeds)} \subseteq Feed
    BY RowType DEF Enabled, Present
  <2>. QED
    BY <1>8, <2>1 DEF List, TypeOK, Stages
<1>9. CASE ListDone(w)
  BY <1>9 DEF ListDone, TypeOK, Stages
<1>10. CASE Reconcile(w)
  BY <1>10 DEF Reconcile, TypeOK, Stages
<1>11. CASE TryLock(w)
  <2>1. cur[w].id \in Ids
    BY <1>0, <1>11, CopyType DEF TryLock, Copying
  <2>. QED
    BY <1>11, <2>1 DEF TryLock, MutexMade, Refused, TypeOK, Stages
<1>12. CASE Admit(w)
  <2>1. cur[w].id \in Ids
    BY <1>0, <1>12, CopyType DEF Admit, Copying
  <2>. QED
    BY <1>12, <2>1 DEF Admit, TypeOK, Stages
<1>13. CASE Recheck(w)
  <2>1. cur[w].id \in Ids
    BY <1>0, <1>13, CopyType DEF Recheck, Copying
  <2>2. CASE FlagClear(w)
    <3>1. watch' \in [Workers -> SUBSET Ids]
      BY <1>13, <2>1, <2>2 DEF Recheck, TypeOK
    <3>. QED
      BY <1>13, <2>2, <3>1 DEF Recheck, TypeOK, Stages
  <2>3. CASE ~FlagClear(w)
    BY <1>13, <2>3 DEF Recheck, Refused, TypeOK, Stages
  <2>. QED
    BY <2>2, <2>3
<1>14. CASE CheckAll(w)
  BY <1>14 DEF CheckAll, FlagReset, Present, TypeOK, Stages
<1>. QED
  BY <1>1, <1>2, <1>3, <1>4, <1>5, <1>6, <1>7, <1>8, <1>9, <1>10, <1>11,
     <1>12, <1>13, <1>14 DEF Sync

LEMMA AskType ==
    ASSUME TypeOK, StartLoop \/ \E w \in Requests :
                      AskAll(w) \/ \E i \in Ids : AskOne(w, i)
    PROVE  TypeOK'
<1> USE Names DEF At, Go, TablesStay, tables, syncer, worker, editor, Start
<1>1. CASE StartLoop
  BY <1>1 DEF StartLoop, TypeOK, Stages
<1>2. ASSUME NEW w \in Requests, AskAll(w) PROVE TypeOK'
  BY <1>2 DEF AskAll, TypeOK, Stages
<1>3. ASSUME NEW w \in Requests, NEW i \in Ids, AskOne(w, i) PROVE TypeOK'
  <2>1. feeds[i] \in Feed
    BY <1>3, RowType DEF AskOne, Enabled, Present
  <2>. QED
    BY <1>3, <2>1 DEF AskOne, TypeOK, Stages
<1>. QED
  BY <1>1, <1>2, <1>3

LEMMA EditType == ASSUME TypeOK, Edit \/ Forget \/ ReconcileEdit PROVE TypeOK'
<1> USE Names DEF tables, syncer, worker, editor, TablesStay, BeginEdit
<1>1. ASSUME NEW i \in Ids, NEW c \in Config, Create(i, c) PROVE TypeOK'
  <2>1. created' \in 1..MaxFeeds
    BY <1>1 DEF Create, TypeOK
  <2>2. NewFeed(i, created', c) \in Feed
    BY <2>1, NewFeedType
  <2>. QED
    BY <1>1, <2>1, <2>2 DEF Create, TypeOK
<1>2. ASSUME NEW i \in Ids, NEW c \in Config, NEW on \in BOOLEAN,
             Update(i, c, on)
      PROVE  TypeOK'
  <2>1. NewContent(feeds[i], c, on) \in Feed
    BY <1>2, RowType, EditRow DEF Update, NewContent
  <2>2. feeds' \in [Ids -> Feed \cup {NoFeed}]
    BY <1>2, <2>1 DEF Update, TypeOK
  <2>3. mode' \subseteq Entries
    BY <1>2, <2>2, MergeType DEF Update
  <2>. QED
    <3>1. edits' \in 0..MaxEdits
      BY <1>2 DEF Update, TypeOK
    <3>2. edit' \in {"idle", "forget", "reconcile"}
      BY <1>2 DEF Update
    <3>3. UNCHANGED <<replay, announced, syncer, worker, forget, created,
                    starts>>
      BY <1>2 DEF Update
    <3>. QED
      BY <2>2, <2>3, <3>1, <3>2, <3>3 DEF TypeOK
<1>3. ASSUME NEW i \in Ids, Delete(i) PROVE TypeOK'
  <2>1. feeds' \in [Ids -> Feed \cup {NoFeed}]
    BY <1>3 DEF Delete, TypeOK
  <2>2. mode' \subseteq Entries
    BY <1>3, <2>1, MergeType DEF Delete
  <2>. QED
    <3>1. /\ edits' \in 0..MaxEdits
          /\ edit' \in {"idle", "forget", "reconcile"}
          /\ forget' \in Ids \cup {0}
      BY <1>3 DEF Delete, TypeOK
    <3>2. UNCHANGED <<replay, announced, syncer, worker, created, starts>>
      BY <1>3 DEF Delete
    <3>. QED
      BY <2>1, <2>2, <3>1, <3>2 DEF TypeOK
<1>4. CASE EditAdapter
  BY <1>4 DEF EditAdapter, TypeOK
<1>5. CASE Forget
  <2>1. mutex' \in [Ids -> Mutexes \cup {NoMutex}]
    <3>1. mutex' \in {mutex, [mutex EXCEPT ![forget] = NoMutex]}
      BY <1>5 DEF Forget
    <3>. QED
      BY <3>1 DEF TypeOK
  <2>4. syncing' \subseteq Ids /\ attempted' \in [Ids -> 0..MaxFeeds]
    <3>1. syncing' = syncing \ {forget}
          /\ attempted' = [attempted EXCEPT ![forget] = 0]
      BY <1>5 DEF Forget
    <3>2. 0 \in 0..MaxFeeds
      OBVIOUS
    <3>. QED
      BY <3>1, <3>2 DEF TypeOK
  <2>2. edit' \in {"idle", "forget", "reconcile"} /\ forget' \in Ids \cup {0}
    BY <1>5 DEF Forget
  <2>3. UNCHANGED <<tables, announced, held, inFlight, worker, created, edits,
                    starts>>
    BY <1>5 DEF Forget
  <2>. QED
    BY <2>1, <2>2, <2>3, <2>4 DEF TypeOK
<1>6. CASE ReconcileEdit
  BY <1>6 DEF ReconcileEdit, TypeOK
<1>. QED
  BY <1>1, <1>2, <1>3, <1>4, <1>5, <1>6 DEF Edit

LEMMA RestartType == ASSUME TypeOK, Restart PROVE TypeOK'
BY Names DEF Restart, TypeOK, Stages, tables

LEMMA TypeStep == TypeOK /\ PcInv /\ [Next]_vars => TypeOK'
<1> SUFFICES ASSUME TypeOK, PcInv, [Next]_vars PROVE TypeOK'
  OBVIOUS
<1>1. CASE UNCHANGED vars
  BY <1>1 DEF vars, tables, syncer, worker, editor, TypeOK
<1>. QED
  BY <1>1, SyncType, AskType, EditType, RestartType DEF Next

----------------------------------------------------------------------------
(* Where workers can be *)

LEMMA PcInit == Init => PcInv
BY Names DEF Init, InitProcess, PcInv, Copying, Holding

LEMMA PcSync ==
    ASSUME TypeOK, TypeOK', PcInv, NEW w \in Workers, Sync(w)
    PROVE  PcInv'
<1> USE Names DEF At, Go, Copying, Holding, PcInv
<1>1. ASSUME NEW f \in todo[w], Take(w, f) PROVE PcInv'
  <2>1. f # NoFeed
    BY DEF TypeOK
  <2>2. mine'[w] # NoMutex
    BY <1>1 DEF Take, TypeOK
  <2>. QED
    BY <1>1, <2>1, <2>2 DEF Take, TypeOK
<1>2. CASE Lock(w)
  BY <1>2 DEF Lock, TypeOK
<1>3. CASE Mark(w)
  BY <1>3 DEF Mark, TypeOK
<1>4. CASE Commit(w)
  BY <1>4 DEF Commit, TypeOK, syncer
<1>5. CASE Fail(w)
  BY <1>5 DEF Fail, TypeOK, syncer
<1>6. CASE PersistError(w)
  BY <1>6 DEF PersistError, TypeOK, syncer
<1>7. CASE Finish(w)
  BY <1>7 DEF Finish, Next1, TypeOK
<1>8. CASE List(w)
  BY <1>8 DEF List, TypeOK, syncer
<1>9. CASE ListDone(w)
  BY <1>9 DEF ListDone, TypeOK, syncer
<1>10. CASE Reconcile(w)
  BY <1>10 DEF Reconcile, TypeOK
<1>11. CASE TryLock(w)
  <2>1. PICK m \in Mutexes :
          IF Busy(m)
          THEN Refused(w) /\ UNCHANGED held
          ELSE /\ held' = held \cup {m}
               /\ mine' = [mine EXCEPT ![w] = m]
               /\ Go(w, "admit")
               /\ UNCHANGED cur
    BY <1>11 DEF TryLock
  <2>2. CASE Busy(m)
    BY <1>11, <2>1, <2>2 DEF TryLock, Refused, TypeOK
  <2>3. CASE ~Busy(m)
    BY <1>11, <2>1, <2>3 DEF TryLock, TypeOK
  <2>. QED
    BY <2>2, <2>3
<1>12. CASE Admit(w)
  BY <1>12 DEF Admit, TypeOK
<1>13. CASE Recheck(w)
  <2>1. CASE FlagClear(w)
    BY <1>13, <2>1 DEF Recheck, TypeOK
  <2>2. CASE ~FlagClear(w)
    BY <1>13, <2>2 DEF Recheck, Refused, TypeOK
  <2>. QED
    BY <2>1, <2>2
<1>14. CASE CheckAll(w)
  <2>1. CASE syncing # {}
    BY <1>14, <2>1 DEF CheckAll, FlagReset, TypeOK, Workers
  <2>2. CASE syncing = {}
    BY <1>14, <2>2 DEF CheckAll, TypeOK
  <2>. QED
    BY <2>1, <2>2
<1>. QED
  BY <1>1, <1>2, <1>3, <1>4, <1>5, <1>6, <1>7, <1>8, <1>9, <1>10, <1>11,
     <1>12, <1>13, <1>14 DEF Sync

LEMMA PcStep == TypeOK /\ TypeOK' /\ PcInv /\ [Next]_vars => PcInv'
<1> SUFFICES ASSUME TypeOK, TypeOK', PcInv, [Next]_vars PROVE PcInv'
  OBVIOUS
<1> USE Names DEF Copying, Holding, PcInv
<1>1. ASSUME UNCHANGED <<pc, cur, mine, inFlight>> PROVE PcInv'
  BY <1>1
<1>2. CASE UNCHANGED vars
  BY <1>1, <1>2 DEF vars, syncer, worker
<1>3. ASSUME Edit \/ Forget \/ ReconcileEdit PROVE PcInv'
  <2>1. UNCHANGED <<pc, cur, mine, inFlight>>
    BY <1>3 DEF Edit, Create, Update, Delete, EditAdapter, Forget,
                ReconcileEdit, syncer, worker
  <2>. QED
    BY <1>1, <2>1
<1>4. CASE StartLoop
  BY <1>4 DEF StartLoop, At, Go, syncer, TypeOK
<1>5. ASSUME NEW w \in Requests, AskAll(w) PROVE PcInv'
  BY <1>5 DEF AskAll, At, Go, TypeOK
<1>6. ASSUME NEW w \in Requests, NEW i \in Ids, AskOne(w, i) PROVE PcInv'
  <2>1. feeds[i] # NoFeed
    BY <1>6 DEF AskOne, Enabled, Present
  <2>. QED
    BY <1>6, <2>1 DEF AskOne, At, Go, syncer, TypeOK
<1>7. CASE Restart
  BY <1>7 DEF Restart
<1>. QED
  BY <1>2, <1>3, <1>4, <1>5, <1>6, <1>7, PcSync DEF Next

----------------------------------------------------------------------------
(* Locks, marks and the flag *)

\* A mutex that is made for a feed is nobody else's.
LEMMA MutexFacts ==
    ASSUME TypeOK, NEW i \in Ids, NEW m \in Mutexes, MutexOf(i, m),
           MutexMade(i, m)
    PROVE  /\ mutex'[i] = m
           /\ \A j \in Ids : j # i => mutex'[j] = mutex[j]
           /\ mutex[i] # NoMutex => mutex' = mutex
           /\ mutex[i] = NoMutex =>
                 m \notin {mine[w] : w \in Workers}
BY DEF MutexOf, MutexMade, TypeOK

LEMMA LockInit == Init => LockInv /\ LeftInv
BY DEF Init, InitProcess, LockInv, LeftInv, Locked, Holding, Copying

\* What LockInv and LeftInv are about stays as it is.
LEMMA LockStays ==
    ASSUME LockInv, LeftInv, TypeOK, TypeOK',
           NEW w \in Workers, NEW s, pc' = [pc EXCEPT ![w] = s],
           pc[w] \in Locked <=> s \in Locked,
           pc[w] \in Marked \cup {"mark"} => s \in Marked \cup {"mark"},
           UNCHANGED <<held, syncing, mine, cur>>
    PROVE  LockInv' /\ LeftInv'
BY DEF LockInv, LeftInv, TypeOK

LEMMA LockSync ==
    ASSUME TypeOK, TypeOK', PcInv, LockInv, LeftInv, NEW w \in Workers, Sync(w)
    PROVE  LockInv' /\ LeftInv'
<1> USE DEF At, Go, Copying, Holding, Locked, Marked
<1>1. ASSUME NEW f \in todo[w], Take(w, f) PROVE LockInv' /\ LeftInv'
  <2>1. mine[w] = NoMutex
    BY <1>1 DEF Take, PcInv
  <2>. QED
    BY <1>1, <2>1, Names DEF Take, LockInv, LeftInv, TypeOK
<1>2. CASE Lock(w)
  BY <1>2 DEF Lock, LockInv, LeftInv, TypeOK
<1>3. CASE Mark(w)
  BY <1>3 DEF Mark, LockInv, LeftInv, TypeOK
<1>4. CASE Commit(w)
  BY <1>4, LockStays DEF Commit, syncer
<1>5. CASE Fail(w)
  BY <1>5, LockStays DEF Fail, syncer
<1>6. CASE PersistError(w)
  BY <1>6, LockStays DEF PersistError, syncer
<1>7. CASE Finish(w)
  <2>1. pc'[w] \notin Locked /\ \A v \in Workers \ {w} : pc'[v] = pc[v]
    BY <1>7 DEF Finish, Next1, TypeOK
  <2>2. \A v \in Workers \ {w} : mine'[v] = mine[v] /\ cur'[v] = cur[v]
    BY <1>7 DEF Finish, TypeOK
  <2>3. held' = held \ {mine[w]} /\ syncing' = syncing \ {cur[w].id}
    BY <1>7 DEF Finish
  <2>4. pc[w] \in Locked
    BY <1>7 DEF Finish
  <2>5. LockInv'
    BY <2>1, <2>2, <2>3, <2>4 DEF LockInv
  <2>6. LeftInv'
    BY <2>1, <2>2, <2>3 DEF LeftInv
  <2>. QED
    BY <2>5, <2>6
<1>8. CASE List(w)
  BY <1>8, LockStays DEF List, syncer
<1>9. CASE ListDone(w)
  BY <1>9, LockStays DEF ListDone, syncer
<1>10. CASE Reconcile(w)
  BY <1>10, LockStays DEF Reconcile
<1>11. CASE TryLock(w)
  <2>1. PICK m \in Mutexes :
          IF Busy(m)
          THEN Refused(w) /\ UNCHANGED held
          ELSE /\ held' = held \cup {m}
               /\ mine' = [mine EXCEPT ![w] = m]
               /\ Go(w, "admit")
               /\ UNCHANGED cur
    BY <1>11 DEF TryLock
  <2>2. mine[w] = NoMutex /\ syncing' = syncing
    BY <1>11 DEF TryLock, PcInv
  <2>3. CASE Busy(m)
    BY <1>11, <2>1, <2>2, <2>3, Names
    DEF TryLock, Refused, LockInv, LeftInv, TypeOK
  <2>4. CASE ~Busy(m)
    <3>1. /\ held' = held \cup {m} /\ m \notin held
          /\ mine'[w] = m /\ pc'[w] = "admit" /\ UNCHANGED cur
          /\ \A v \in Workers \ {w} : UNCHANGED <<pc[v], mine[v]>>
      BY <2>1, <2>4 DEF Busy, TypeOK
    <3>2. LockInv'
      BY <3>1 DEF LockInv
    <3>3. held' \subseteq {mine'[v] : v \in Workers}
      <4>1. mine[w] \notin held
        BY <2>2, Names DEF TypeOK
      <4>. QED
        BY <3>1, <4>1 DEF LeftInv
    <3>4. pc[w] = "try"
      BY <1>11 DEF TryLock
    <3>5. \A i \in syncing' : \E v \in Workers : pc'[v] \in Marked \cup {"mark"}
                                             /\ cur'[v].id = i
      BY <2>2, <3>1, <3>4 DEF LeftInv
    <3>. QED
      BY <3>2, <3>3, <3>5 DEF LeftInv
  <2>. QED
    BY <2>3, <2>4
<1>12. CASE Admit(w)
  BY <1>12 DEF Admit, LockInv, LeftInv, TypeOK
<1>13. CASE Recheck(w)
  <2>1. CASE FlagClear(w)
    BY <1>13, <2>1, LockStays DEF Recheck
  <2>2. CASE ~FlagClear(w)
    BY <1>13, <2>2 DEF Recheck, Refused, LockInv, LeftInv, TypeOK
  <2>. QED
    BY <2>1, <2>2
<1>14. CASE CheckAll(w)
  BY <1>14, LockStays DEF CheckAll
<1>. QED
  BY <1>1, <1>2, <1>3, <1>4, <1>5, <1>6, <1>7, <1>8, <1>9, <1>10, <1>11,
     <1>12, <1>13, <1>14 DEF Sync

LEMMA LockStep ==
    TypeOK /\ TypeOK' /\ PcInv /\ LockInv /\ LeftInv /\ [Next]_vars
    => LockInv' /\ LeftInv'
<1> SUFFICES ASSUME TypeOK, TypeOK', PcInv, LockInv, LeftInv, [Next]_vars
             PROVE  LockInv' /\ LeftInv'
  OBVIOUS
<1> USE DEF Copying, Holding, Locked, Marked
<1>1. ASSUME UNCHANGED <<pc, cur, mine, held>>, syncing' \subseteq syncing
      PROVE  LockInv' /\ LeftInv'
  BY <1>1 DEF LockInv, LeftInv
<1>2. CASE UNCHANGED vars
  BY <1>1, <1>2 DEF vars, syncer, worker
<1>3. ASSUME Edit \/ Forget \/ ReconcileEdit PROVE LockInv' /\ LeftInv'
  <2>1. UNCHANGED <<pc, cur, mine, held>> /\ syncing' \subseteq syncing
    BY <1>3 DEF Edit, Create, Update, Delete, EditAdapter, Forget,
                ReconcileEdit, syncer, worker
  <2>. QED
    BY <1>1, <2>1
<1>4. CASE StartLoop
  BY <1>4, LockStays, Names DEF StartLoop, At, Go, syncer
<1>5. ASSUME NEW w \in Requests, AskAll(w) PROVE LockInv' /\ LeftInv'
  BY <1>5, LockStays, Names DEF AskAll, At, Go
<1>6. ASSUME NEW w \in Requests, NEW i \in Ids, AskOne(w, i)
      PROVE  LockInv' /\ LeftInv'
  BY <1>6, Names DEF AskOne, At, Go, syncer, LockInv, LeftInv, TypeOK
<1>7. CASE Restart
  BY <1>7 DEF Restart, LockInv, LeftInv
<1>. QED
  BY <1>2, <1>3, <1>4, <1>5, <1>6, <1>7, LockSync DEF Next

----------------------------------------------------------------------------
(* Rows and ids *)

\* What the two steps of a synchronisation that write do to the rows.
LEMMA CommitRows ==
    ASSUME TypeOK, PcInv, NEW w \in Workers, Commit(w)
    PROVE  \/ UNCHANGED <<feeds, mode, replay>>
           \/ \E i \in Ids, es \in SUBSET Entries :
                 /\ i = cur[w].id
                 /\ feeds[i] \in Feed /\ cur[w].config \in Config
                 /\ Unchanged(feeds[i], w)
                 /\ feeds' = [feeds EXCEPT ![i] =
                                Stored(feeds[i], es, cur[w].config)]
                 /\ replay' = [replay EXCEPT ![i] =
                                 Replayed(feeds[i], replay[i], es)]
                 /\ mode' = Merge(feeds')
<1>1. cur[w].id \in Ids /\ cur[w].config \in Config
  BY CopyType DEF Commit, At, Copying, PcInv
<1>2. Unchanged(feeds[cur[w].id], w) => feeds[cur[w].id] \in Feed
  BY <1>1, RowType DEF Unchanged, SameButHosts
<1>. QED
  BY <1>1, <1>2 DEF Commit, Stored, Rebuilt, tables

LEMMA ErrorRows ==
    ASSUME TypeOK, PcInv, NEW w \in Workers, PersistError(w)
    PROVE  /\ UNCHANGED <<mode, replay>>
           /\ \/ UNCHANGED feeds
              \/ \E i \in Ids, c \in Config :
                    /\ feeds[i] \in Feed
                    /\ feeds' = [feeds EXCEPT ![i] = Failed(feeds[i], c)]
<1>1. cur[w].id \in Ids /\ cur[w].config \in Config
  BY CopyType DEF PersistError, At, Copying, PcInv
<1>2. GetsError(feeds[cur[w].id], w) => feeds[cur[w].id] \in Feed
  BY <1>1, RowType DEF GetsError, SameButHosts
<1>. QED
  BY <1>1, <1>2 DEF PersistError, Failed

\* A synchronisation leaves every row its identity, and in place,
LEMMA SyncRows ==
    ASSUME TypeOK, PcInv, NEW w \in Workers, Sync(w)
    PROVE  /\ \A i \in Ids : (feeds'[i] = NoFeed) <=> (feeds[i] = NoFeed)
           /\ \A i \in Present(feeds) : /\ feeds'[i].id = feeds[i].id
                                        /\ feeds'[i].serial = feeds[i].serial
           /\ UNCHANGED <<created, forget>>
<1> USE Names DEF TablesStay, tables, editor, Present, TypeOK
<1>1. CASE Commit(w)
  <2>1. UNCHANGED <<created, forget>>
    BY <1>1 DEF Commit
  <2>. QED
    BY <1>1, <2>1, CommitRows, CommitRow
<1>2. CASE PersistError(w)
  <2>1. UNCHANGED <<created, forget>>
    BY <1>2 DEF PersistError
  <2>. QED
    BY <1>2, <2>1, ErrorRows, ErrorRow
<1>3. CASE ~Commit(w) /\ ~PersistError(w)
  BY <1>3 DEF Sync, Take, Lock, Mark, Fail, Finish, List, ListDone, Reconcile,
              TryLock, Admit, Recheck, CheckAll
<1>. QED
  BY <1>1, <1>2, <1>3

\* and so does an edit, but for the row it creates or deletes.
LEMMA CreateRow ==
    ASSUME TypeOK, IdInv, NEW i \in Ids, NEW c \in Config, Create(i, c)
    PROVE  /\ feeds[i] = NoFeed
           /\ i <= created + 1
           /\ created' = created + 1
           /\ created + 1 \in 1..MaxFeeds
           /\ feeds' = [feeds EXCEPT ![i] = NewFeed(i, created + 1, c)]
           /\ NewFeed(i, created + 1, c) \in Feed
<1>1. feeds[i] = NoFeed
  BY Names DEF Create, IsNewId, Present
<1>2. created \in Nat
  BY Names DEF TypeOK
<1>3. i <= created + 1
  BY <1>2, Names DEF Create, IsNewId, IdInv, Present
<1>4. created + 1 \in 1..MaxFeeds
  BY <1>2, Names DEF Create
<1>. QED
  BY <1>1, <1>3, <1>4, NewFeedType DEF Create

LEMMA UpdateRow ==
    ASSUME TypeOK, NEW i \in Ids, NEW c \in Config, NEW on \in BOOLEAN,
           Update(i, c, on)
    PROVE  /\ feeds[i] \in Feed
           /\ feeds' = [feeds EXCEPT ![i] = Updated(feeds[i], c, on)]
           /\ Updated(feeds[i], c, on) \in Feed
           /\ Updated(feeds[i], c, on).id = feeds[i].id
           /\ Updated(feeds[i], c, on).serial = feeds[i].serial
<1>1. feeds[i] \in Feed
  BY RowType DEF Update
<1>2. /\ Updated(feeds[i], c, on).id = feeds[i].id
      /\ Updated(feeds[i], c, on).serial = feeds[i].serial
  BY <1>1 DEF Updated, NewFeed, Feed
<1>. QED
  BY <1>1, <1>2, EditRow DEF Update, NewContent

\* A feed that is the first of its id was so before, or it has an id that
\* nobody knew.
LEMMA OriginalStays ==
    ASSUME TypeOK, IdInv, PcInv, [Next]_vars, ~Restart, NEW i \in Ids,
           Original(i)'
    PROVE  /\ Original(i) \/ (created < i /\ created' = i)
           /\ forget' = i => forget = i
<1> SUFFICES /\ Original(i) \/ (created < i /\ created' = i)
             /\ forget' = i => forget = i
  OBVIOUS
<1> USE DEF Original, tables, editor, TablesStay
<1>0. created \in Nat /\ i \in Nat \ {0}
  BY Names DEF TypeOK
<1>1. CASE UNCHANGED <<feeds, forget>>
  BY <1>1
<1>2. ASSUME NEW w \in Workers, Sync(w)
      PROVE  /\ Original(i) \/ (created < i /\ created' = i)
             /\ forget' = i => forget = i
  BY <1>2, SyncRows DEF Present
<1>3. ASSUME NEW j \in Ids, NEW c \in Config, Create(j, c)
      PROVE  /\ Original(i) \/ (created < i /\ created' = i)
             /\ forget' = i => forget = i
  <2>1. CASE i # j
    BY <1>3, <2>1, CreateRow DEF TypeOK, Create
  <2>2. CASE i = j
    <3>1. feeds'[i] = NewFeed(i, created + 1, c)
      BY <1>3, <2>2, CreateRow DEF TypeOK
    <3>2. feeds'[i].serial = created + 1
      BY <3>1 DEF NewFeed
    <3>. QED
      BY <1>0, <1>3, <2>2, <3>2, CreateRow DEF Create
  <2>. QED
    BY <2>1, <2>2
<1>4. ASSUME NEW j \in Ids, NEW c \in Config, NEW on \in BOOLEAN,
             Update(j, c, on)
      PROVE  /\ Original(i) \/ (created < i /\ created' = i)
             /\ forget' = i => forget = i
  BY <1>4, UpdateRow, Names DEF TypeOK, Update
<1>5. ASSUME NEW j \in Ids, Delete(j)
      PROVE  /\ Original(i) \/ (created < i /\ created' = i)
             /\ forget' = i => forget = i
  BY <1>5 DEF Delete, TypeOK
<1>6. CASE Forget
  BY <1>0, <1>6 DEF Forget
<1>7. CASE EditAdapter \/ ReconcileEdit \/ StartLoop
  BY <1>1, <1>7 DEF EditAdapter, ReconcileEdit, StartLoop
<1>8. ASSUME NEW w \in Requests, AskAll(w) \/ \E j \in Ids : AskOne(w, j)
      PROVE  UNCHANGED <<feeds, forget>>
  BY <1>8 DEF AskAll, AskOne
<1>. QED
  BY <1>1, <1>2, <1>3, <1>4, <1>5, <1>6, <1>7, <1>8 DEF Next, Edit, vars

LEMMA IdsAreNat ==
    ASSUME TypeOK
    PROVE  /\ created \in Nat /\ forget \in Nat /\ Ids \subseteq Nat
           /\ \A w \in Workers : cur[w] # NoFeed => cur[w].id \in Nat
           /\ \A w \in Workers : \A f \in todo[w] : f.id \in Nat
<1>1. \A f \in Feed : f.id \in Nat
  BY Names DEF Feed
<1>2. \A w \in Workers : todo[w] \subseteq Feed
  BY DEF TypeOK
<1>3. \A w \in Workers : cur[w] # NoFeed => cur[w] \in Feed
  BY DEF TypeOK
<1>4. created \in Nat /\ forget \in Nat /\ Ids \subseteq Nat
  BY Names DEF TypeOK
<1>. QED
  BY <1>1, <1>2, <1>3, <1>4

LEMMA IdInit == Init => IdInv
BY Names DEF Init, InitProcess, IdInv, Present, NewFeed

LEMMA IdStep ==
    TypeOK /\ TypeOK' /\ PcInv /\ IdInv /\ [Next]_vars => IdInv'
<1> SUFFICES ASSUME TypeOK, TypeOK', PcInv, IdInv, [Next]_vars PROVE IdInv'
  OBVIOUS
<1> USE Names DEF Present
<1>0. created \in Nat /\ created' \in Nat
  BY DEF TypeOK
<1>1. ASSUME UNCHANGED <<feeds, cur, todo>>, created' >= created,
             forget' \in {forget, 0}
      PROVE  IdInv'
  <2>1. \A n \in Nat : n <= created => n <= created'
    BY <1>0, <1>1
  <2>2. \A i \in Present(feeds)' : feeds'[i].id = i /\ i <= created'
    BY <1>1, <2>1, IdsAreNat DEF IdInv
  <2>3. \A w \in Workers : cur'[w] # NoFeed => cur'[w].id <= created'
    BY <1>1, <2>1, IdsAreNat DEF IdInv
  <2>4. \A w \in Workers : \A f \in todo'[w] : f.id <= created'
    BY <1>1, <2>1, IdsAreNat DEF IdInv
  <2>5. forget' <= created'
    BY <1>0, <1>1, <2>1, IdsAreNat DEF IdInv
  <2>. QED
    BY <2>2, <2>3, <2>4, <2>5 DEF IdInv
<1>2. CASE UNCHANGED vars
  BY <1>0, <1>1, <1>2 DEF vars, tables, worker, editor
<1>3. ASSUME NEW w \in Workers, Sync(w) PROVE IdInv'
  <2>1. \A i \in Present(feeds)' : feeds'[i].id = i /\ i <= created'
    BY <1>3, SyncRows DEF IdInv
  <2>2. \A v \in Workers : \A f \in todo'[v] : f.id <= created'
    <3>1. CASE List(w)
      BY <1>0, <3>1 DEF List, IdInv, TypeOK, editor, Enabled
    <3>2. CASE \E f \in todo[w] : Take(w, f)
      BY <1>0, <3>2 DEF Take, IdInv, TypeOK, editor
    <3>3. CASE ~List(w) /\ ~\E f \in todo[w] : Take(w, f)
      <4>1. UNCHANGED <<todo, created>>
        BY <1>3, <3>3 DEF Sync, Lock, Mark, Commit, Fail, PersistError, Finish,
             ListDone, Reconcile, TryLock, Admit, Recheck, CheckAll, editor
      <4>. QED
        BY <4>1 DEF IdInv
    <3>. QED
      BY <3>1, <3>2, <3>3
  <2>3. \A v \in Workers : cur'[v] # NoFeed => cur'[v].id <= created'
    <3>1. CASE \E f \in todo[w] : Take(w, f)
      BY <1>0, <3>1 DEF Take, IdInv, TypeOK, editor
    <3>2. CASE ~\E f \in todo[w] : Take(w, f)
      <4>1. created' = created
            /\ \A v \in Workers : cur'[v] \in {cur[v], NoFeed}
        BY <1>3, <3>2 DEF Sync, Lock, Mark, Commit, Fail, PersistError, Finish,
             List, ListDone, Reconcile, TryLock, Admit, Recheck, CheckAll,
             Refused, editor, TypeOK
      <4>. QED
        BY <4>1 DEF IdInv
    <3>. QED
      BY <3>1, <3>2
  <2>4. forget' <= created'
    BY <1>3, SyncRows DEF IdInv
  <2>. QED
    BY <2>1, <2>2, <2>3, <2>4 DEF IdInv
<1>4. ASSUME NEW i \in Ids, NEW c \in Config, Create(i, c) PROVE IdInv'
  <2>1. \A j \in Present(feeds)' : feeds'[j].id = j /\ j <= created'
    <3>0. feeds'[i] = NewFeed(i, created + 1, c)
      BY <1>4, CreateRow DEF TypeOK
    <3>1. feeds'[i].id = i /\ i <= created'
      BY <1>4, <3>0, CreateRow DEF NewFeed
    <3>2. \A j \in Ids \ {i} : feeds'[j] = feeds[j]
      BY <1>4, CreateRow DEF TypeOK
    <3>3. created' = created + 1 /\ Ids \subseteq Nat
      BY <1>4, CreateRow, IdsAreNat
    <3>4. \A j \in Present(feeds) : feeds[j].id = j /\ j <= created'
      BY <1>0, <3>3 DEF IdInv
    <3>. QED
      BY <3>1, <3>2, <3>4
  <2>2. UNCHANGED <<cur, todo, forget>> /\ created' = created + 1
    BY <1>4 DEF Create, worker
  <2>3. \A w \in Workers : cur'[w] # NoFeed => cur'[w].id <= created'
    BY <1>0, <2>2, IdsAreNat DEF IdInv
  <2>4. \A w \in Workers : \A f \in todo'[w] : f.id <= created'
    BY <1>0, <2>2, IdsAreNat DEF IdInv
  <2>5. forget' <= created'
    BY <1>0, <2>2, IdsAreNat DEF IdInv
  <2>. QED
    BY <2>1, <2>3, <2>4, <2>5 DEF IdInv
<1>5. ASSUME NEW i \in Ids, NEW c \in Config, NEW on \in BOOLEAN,
             Update(i, c, on)
      PROVE  IdInv'
  <2>1. \A j \in Present(feeds)' : feeds'[j].id = j /\ j <= created
    BY <1>5, UpdateRow DEF TypeOK, IdInv
  <2>2. UNCHANGED <<cur, todo, created, forget>>
    BY <1>5 DEF Update, worker
  <2>. QED
    BY <2>1, <2>2 DEF IdInv
<1>6. ASSUME NEW i \in Ids, Delete(i) PROVE IdInv'
  BY <1>6 DEF Delete, worker, IdInv, TypeOK
<1>7. CASE EditAdapter \/ Forget \/ ReconcileEdit \/ StartLoop
  BY <1>0, <1>1, <1>7
  DEF EditAdapter, Forget, ReconcileEdit, StartLoop, TablesStay, tables,
      worker, editor
<1>8. ASSUME NEW w \in Requests, AskAll(w) PROVE IdInv'
  BY <1>0, <1>1, <1>8 DEF AskAll, TablesStay, tables, editor
<1>9. ASSUME NEW w \in Requests, NEW i \in Ids, AskOne(w, i) PROVE IdInv'
  BY <1>9 DEF AskOne, TablesStay, tables, editor, IdInv, TypeOK, Enabled
<1>10. CASE Restart
  BY <1>0, <1>10 DEF Restart, tables, IdInv, TypeOK
<1>. QED
  BY <1>2, <1>3, <1>4, <1>5, <1>6, <1>7, <1>8, <1>9, <1>10 DEF Next, Edit

----------------------------------------------------------------------------
(* Mutexes and watches of a feed that is the first of its id *)

LEMMA MutexInit == Init => MutexInv /\ WatchInv
BY Names DEF Init, InitProcess, MutexInv, WatchInv, Holding, Copying, Running

\* Who comes to hold a mutex has the one of the map,
LEMMA MutexTaken ==
    ASSUME TypeOK, TypeOK', PcInv, MutexInv, NEW w \in Workers,
           NEW f \in Feed, NEW m \in Mutexes,
           MutexOf(f.id, m), MutexMade(f.id, m),
           UNCHANGED <<feeds, forget>>,
           \A v \in Workers \ {w} : UNCHANGED <<pc[v], cur[v], mine[v]>>,
           pc'[w] \in Holding => cur'[w] = f /\ mine'[w] = m
    PROVE  MutexInv'
<1>1. f.id \in Ids
  BY DEF Feed
<1>2. /\ mutex'[f.id] = m
      /\ \A j \in Ids : j # f.id => mutex'[j] = mutex[j]
      /\ mutex[f.id] # NoMutex => mutex' = mutex
  BY <1>1, MutexFacts
<1> SUFFICES ASSUME NEW i \in Ids, Original(i)
             PROVE  /\ forget # i
                    /\ \A v \in Workers :
                          pc'[v] \in Holding /\ cur'[v].id = i
                          => mine'[v] = mutex'[i]
  BY DEF MutexInv, Original
<1>3. forget # i
  BY DEF MutexInv
<1>4. ASSUME NEW v \in Workers, v # w, pc'[v] \in Holding, cur'[v].id = i
      PROVE  mine'[v] = mutex'[i]
  <2>1. mine[v] = mutex[i] /\ mine[v] # NoMutex /\ mine'[v] = mine[v]
    BY <1>4 DEF MutexInv, PcInv
  <2>. QED
    BY <1>2, <2>1
<1>5. pc'[w] \in Holding /\ cur'[w].id = i => mine'[w] = mutex'[i]
  BY <1>2
<1>. QED
  BY <1>3, <1>4, <1>5

\* and the others keep what they have.
LEMMA MutexStays ==
    ASSUME MutexInv,
           UNCHANGED <<mutex, forget>>,
           \A i \in Ids : Original(i)' => Original(i),
           \A v \in Workers :
              pc'[v] \in Holding => pc[v] \in Holding
                                    /\ UNCHANGED <<cur[v], mine[v]>>
    PROVE  MutexInv'
BY DEF MutexInv

LEMMA MutexStep ==
    TypeOK /\ TypeOK' /\ PcInv /\ IdInv /\ MutexInv /\ [Next]_vars
    => MutexInv'
<1> SUFFICES ASSUME TypeOK, TypeOK', PcInv, IdInv, MutexInv, [Next]_vars
             PROVE  MutexInv'
  OBVIOUS
<1> USE Names DEF TablesStay, tables, editor, syncer, At, Go, Copying, Holding
<1>1. CASE UNCHANGED vars
  BY <1>1, MutexStays DEF vars, worker, Original
<1>2. ASSUME NEW w \in Workers, NEW f \in todo[w], Take(w, f) PROVE MutexInv'
  <2>1. f \in Feed
    BY DEF TypeOK
  <2>2. /\ UNCHANGED <<feeds, forget>>
        /\ \A v \in Workers \ {w} : UNCHANGED <<pc[v], cur[v], mine[v]>>
        /\ cur'[w] = f
    BY <1>2 DEF Take, TypeOK
  <2>3. PICK m \in Mutexes : /\ MutexOf(f.id, m) /\ MutexMade(f.id, m)
                             /\ mine' = [mine EXCEPT ![w] = m]
    BY <1>2 DEF Take
  <2>4. mine'[w] = m
    BY <2>3 DEF TypeOK
  <2>. QED
    BY <2>1, <2>2, <2>3, <2>4, MutexTaken
<1>3. ASSUME NEW w \in Workers, TryLock(w) PROVE MutexInv'
  <2>1. cur[w] \in Feed
    BY <1>3, CopyType DEF TryLock, PcInv
  <2>2. PICK m \in Mutexes :
          /\ MutexOf(cur[w].id, m)
          /\ MutexMade(cur[w].id, m)
          /\ IF Busy(m)
             THEN Refused(w) /\ UNCHANGED held
             ELSE /\ held' = held \cup {m}
                  /\ mine' = [mine EXCEPT ![w] = m]
                  /\ Go(w, "admit")
                  /\ UNCHANGED cur
    BY <1>3 DEF TryLock
  <2>3. UNCHANGED <<feeds, forget>>
    BY <1>3 DEF TryLock
  <2>4. /\ \A v \in Workers \ {w} : UNCHANGED <<pc[v], cur[v], mine[v]>>
        /\ pc'[w] \in Holding => cur'[w] = cur[w] /\ mine'[w] = m
    <3>1. CASE Busy(m)
      BY <2>2, <3>1 DEF Refused, TypeOK
    <3>2. CASE ~Busy(m)
      BY <2>2, <3>2 DEF TypeOK
    <3>. QED
      BY <3>1, <3>2
  <2>. QED
    BY <2>1, <2>2, <2>3, <2>4, MutexTaken
<1>4. ASSUME NEW w \in Workers, Sync(w), ~TryLock(w),
             ~\E f \in todo[w] : Take(w, f)
      PROVE  MutexInv'
  <2>1. \A i \in Ids : Original(i)' => Original(i)
    BY <1>4, SyncRows DEF Original, Present
  <2>2. UNCHANGED <<mutex, forget>>
    BY <1>4 DEF Sync, Lock, Mark, Commit, Fail, PersistError, Finish, List,
         ListDone, Reconcile, Admit, Recheck, CheckAll
  <2>3. \A v \in Workers :
              pc'[v] \in Holding => pc[v] \in Holding
                                    /\ UNCHANGED <<cur[v], mine[v]>>
    <3>1. CASE Lock(w) \/ Mark(w) \/ Commit(w) \/ Fail(w) \/ PersistError(w)
      BY <3>1 DEF Lock, Mark, Commit, Fail, PersistError, TypeOK
    <3>2. CASE Finish(w)
      BY <3>2 DEF Finish, Next1, TypeOK
    <3>3. CASE List(w) \/ ListDone(w) \/ Reconcile(w) \/ Admit(w)
      BY <3>3 DEF List, ListDone, Reconcile, Admit, TypeOK
    <3>4. CASE Recheck(w)
      BY <3>4 DEF Recheck, Refused, TypeOK
    <3>5. CASE CheckAll(w)
      BY <3>5 DEF CheckAll, TypeOK
    <3>. QED
      BY <1>4, <3>1, <3>2, <3>3, <3>4, <3>5 DEF Sync
  <2>. QED
    BY <2>1, <2>2, <2>3, MutexStays
<1>5. ASSUME Edit PROVE MutexInv'
  <2>1. UNCHANGED <<mutex, pc, cur, mine>>
    BY <1>5 DEF Edit, Create, Update, Delete, EditAdapter, worker
  <2>2. ~Restart => MutexInv'
    <3> SUFFICES ASSUME ~Restart, NEW i \in Ids, Original(i)'
                 PROVE  /\ forget' # i
                        /\ \A v \in Workers :
                              pc'[v] \in Holding /\ cur'[v].id = i
                              => mine'[v] = mutex'[i]
      BY DEF MutexInv
    <3>1. CASE Original(i)
      BY <2>1, <3>1, OriginalStays DEF MutexInv
    <3>2. CASE created < i
      <4>1. \A v \in Workers : cur[v] # NoFeed => cur[v].id # i
        BY <3>2, IdsAreNat DEF IdInv
      <4>2. forget # i
        BY <3>2, IdsAreNat DEF IdInv
      <4>. QED
        BY <2>1, <4>1, <4>2, OriginalStays DEF PcInv
    <3>. QED
      BY <3>1, <3>2, OriginalStays
  <2>3. Restart => MutexInv'
    BY DEF Restart, MutexInv
  <2>. QED
    BY <2>2, <2>3
<1>6. CASE Forget
  <2>1. \A i \in Ids : Original(i)' => Original(i) /\ mutex'[i] = mutex[i]
    BY <1>6 DEF Forget, MutexInv, Original, TypeOK
  <2>2. UNCHANGED <<pc, cur, mine>> /\ forget' = 0
    BY <1>6 DEF Forget, worker
  <2>. QED
    BY <2>1, <2>2 DEF MutexInv
<1>7. CASE ReconcileEdit
  BY <1>7, MutexStays DEF ReconcileEdit, worker, Original
<1>8. CASE StartLoop
  BY <1>8, MutexStays DEF StartLoop, Original, TypeOK
<1>9. ASSUME NEW w \in Requests, AskAll(w) PROVE MutexInv'
  BY <1>9, MutexStays DEF AskAll, Original, TypeOK
<1>10. ASSUME NEW w \in Requests, NEW i \in Ids, AskOne(w, i) PROVE MutexInv'
  BY <1>10, MutexStays DEF AskOne, Original, TypeOK
<1>11. CASE Restart
  BY <1>11 DEF Restart, MutexInv
<1>. QED
  BY <1>1, <1>2, <1>3, <1>4, <1>5, <1>6, <1>7, <1>8, <1>9, <1>10, <1>11
  DEF Next, Sync

\* Who is in the stages of WatchInv has locked the mutex of its feed.
LEMMA WatcherIsLocked ==
    ASSUME PcInv, NEW w \in Requests, Running(w), inFlight # w
    PROVE  /\ w \in Workers
           /\ pc[w] \in {"mark", "run", "fail", "done", "failed"}
           /\ pc[w] \in Locked
           /\ cur[w] # NoFeed
BY Names DEF PcInv, Running, Locked, Holding, Copying

\* What WatchInv is about stays as it is for w.
LEMMA WatchStays ==
    ASSUME WatchInv, PcInv, TypeOK, NEW w \in Requests,
           Original(cur[w].id)' => Original(cur[w].id),
           UNCHANGED <<pc[w], cur[w], watch[w]>>,
           inFlight # w
    PROVE  (Running(w) /\ inFlight # w /\ Original(cur[w].id)
            => cur[w].id \in watch[w])'
BY DEF WatchInv, Running, Original

LEMMA WatchStep ==
    TypeOK /\ TypeOK' /\ PcInv /\ PcInv' /\ LockInv /\ IdInv /\ MutexInv
    /\ WatchInv /\ [Next]_vars
    => WatchInv'
<1> SUFFICES ASSUME TypeOK, TypeOK', PcInv, PcInv', LockInv, IdInv, MutexInv,
                    WatchInv, [Next]_vars,
                    NEW w \in Requests, Running(w)', inFlight' # w,
                    Original(cur[w].id)'
             PROVE  cur'[w].id \in watch'[w]
  BY DEF WatchInv
<1> USE Names DEF TablesStay, tables, editor, syncer, At, Go
<1>0. /\ w \in Workers
      /\ pc'[w] \in {"mark", "run", "fail", "done", "failed"}
      /\ cur'[w] # NoFeed /\ cur'[w].id \in Ids
  BY DEF PcInv, Running, Copying, TypeOK, Feed
<1>10. PICK i \in Ids : i = cur'[w].id /\ Original(i)'
  BY <1>0 DEF Original
<1>1. ASSUME UNCHANGED <<pc[w], cur[w], watch[w]>>,
             inFlight = w => pc'[w] \notin
                               {"mark", "run", "fail", "done", "failed"},
             ~Restart
      PROVE  cur'[w].id \in watch'[w]
  <2>1. Running(w) /\ inFlight # w
    BY <1>0, <1>1 DEF Running
  <2>3. cur[w].id <= created /\ cur[w].id \in Nat /\ created \in Nat
    BY <1>0, <1>1, IdsAreNat DEF IdInv
  <2>4. Original(cur[w].id)
    BY <1>0, <1>1, <1>10, <2>3, OriginalStays
  <2>. QED
    BY <1>1, <2>1, <2>4 DEF WatchInv
<1>2. ~Restart
  BY <1>0 DEF Restart
<1>3. ASSUME NEW v \in Workers, Sync(v) PROVE cur'[w].id \in watch'[w]
  <2>1. ASSUME ~(Finish(v) \/ Reconcile(v) \/ Recheck(v) \/ CheckAll(v))
        PROVE  inFlight' = inFlight /\ watch' = watch
    BY <1>3, <2>1 DEF Sync, Take, Lock, Mark, Commit, Fail, PersistError, List,
         ListDone, TryLock, Admit
  <2>2. CASE v = w
    <3>1. inFlight' = inFlight \/ pc'[w] = "idle"
      BY <1>3, <2>1, <2>2 DEF Finish, Reconcile, Recheck, CheckAll, TypeOK
    <3>2. inFlight # w
      BY <1>0, <3>1
    <3>3. CASE Lock(v)
      BY <1>0, <2>2, <3>2, <3>3 DEF Lock, PcInv
    <3>4. CASE Mark(v) \/ Commit(v) \/ Fail(v) \/ PersistError(v)
      <4>1. pc[w] \in {"mark", "run", "fail"} /\ cur'[w] = cur[w]
            /\ watch'[w] = watch[w]
        BY <2>2, <3>4 DEF Mark, Commit, Fail, PersistError
      <4>3. cur[w].id <= created /\ cur[w].id \in Nat /\ created \in Nat
        BY <1>0, <4>1, IdsAreNat DEF IdInv
      <4>4. Original(cur[w].id)
        BY <1>0, <1>2, <1>10, <4>1, <4>3, OriginalStays
      <4>. QED
        BY <3>2, <4>1, <4>4 DEF WatchInv, Running
    <3>5. CASE Recheck(v)
      BY <1>0, <2>2, <3>5 DEF Recheck, Refused, TypeOK
    <3>6. CASE Finish(v)
      BY <1>0, <2>2, <3>2, <3>6 DEF Finish, Next1, TypeOK
    <3>7. CASE \E f \in todo[v] : Take(v, f)
      BY <1>0, <2>2, <3>7 DEF Take, TypeOK
    <3>8. CASE List(v) \/ ListDone(v) \/ Reconcile(v) \/ TryLock(v) \/ Admit(v)
               \/ CheckAll(v)
      BY <1>0, <2>2, <3>8
      DEF List, ListDone, Reconcile, TryLock, Admit, CheckAll, Refused, TypeOK
    <3>. QED
      BY <1>3, <3>3, <3>4, <3>5, <3>6, <3>7, <3>8 DEF Sync
  <2>3. CASE v # w
    <3>1. UNCHANGED <<pc[w], cur[w]>>
      <4>1. CASE TryLock(v) \/ Recheck(v)
        BY <1>0, <2>3, <4>1 DEF TryLock, Recheck, Refused, TypeOK
      <4>2. CASE ~(TryLock(v) \/ Recheck(v))
        BY <1>0, <1>3, <2>3, <4>2
        DEF Sync, Take, Lock, Mark, Commit, Fail, PersistError, Finish, List,
            ListDone, Reconcile, Admit, CheckAll, TypeOK
      <4>. QED
        BY <4>1, <4>2
    <3>2. inFlight = w => inFlight' = w
      <4>1. CASE CheckAll(v)
        BY <2>3, <4>1 DEF CheckAll, PcInv, Workers
      <4>2. CASE Reconcile(v)
        BY <2>3, <4>2 DEF Reconcile
      <4>3. CASE Finish(v) \/ Recheck(v)
        BY <4>3 DEF Finish, Recheck
      <4>. QED
        BY <2>1, <4>1, <4>2, <4>3
    <3>3. CASE ~Finish(v)
      <4>1. watch'[w] = watch[w]
        BY <1>0, <1>3, <2>1, <2>3, <3>3
        DEF Reconcile, Recheck, CheckAll, TypeOK
      <4>. QED
        BY <1>1, <1>2, <3>1, <3>2, <4>1
    <3>4. CASE Finish(v)
      <4>1. Running(w) /\ inFlight # w
        BY <3>1, <3>2 DEF Running
      <4>2. Original(cur[w].id)
        BY <1>0, <1>10, <3>1, <3>4 DEF Finish, Original
      <4>3. cur[v].id # cur[w].id
        <5>1. pc[v] \in Locked /\ pc[w] \in Locked
          BY <3>4, <4>1, WatcherIsLocked DEF Finish, Locked, Holding, Copying
        <5>2. mine[v] # mine[w]
          BY <1>0, <2>3, <5>1 DEF LockInv
        <5>3. cur[v].id = cur[w].id => mine[v] = mine[w]
          BY <1>0, <3>1, <4>2, <5>1 DEF MutexInv, Locked
        <5>. QED
          BY <5>2, <5>3
      <4>4. watch'[w] \in {watch[w], watch[w] \ {cur[v].id}}
        BY <1>0, <3>4 DEF Finish
      <4>5. cur[w].id \in watch[w]
        BY <4>1, <4>2 DEF WatchInv
      <4>. QED
        BY <3>1, <4>3, <4>4, <4>5
    <3>. QED
      BY <3>3, <3>4
  <2>. QED
    BY <2>2, <2>3
<1>4. ASSUME UNCHANGED <<pc, cur, watch, inFlight>>
      PROVE  cur'[w].id \in watch'[w]
  BY <1>1, <1>2, <1>4
<1>5. CASE Edit \/ Forget \/ ReconcileEdit
  <2>1. UNCHANGED <<pc, cur, watch, inFlight>>
    BY <1>5 DEF Edit, Create, Update, Delete, EditAdapter, Forget,
                ReconcileEdit, worker
  <2>. QED
    BY <1>4, <2>1
<1>6. CASE StartLoop
  <2>1. UNCHANGED <<cur, watch, inFlight>> /\ pc'[w] = pc[w]
    BY <1>0, <1>6 DEF StartLoop, TypeOK
  <2>. QED
    BY <1>1, <1>2, <2>1
<1>7. ASSUME NEW v \in Requests, AskAll(v) PROVE cur'[w].id \in watch'[w]
  <2>1. pc'[v] = "check" /\ inFlight = NoOne /\ UNCHANGED <<cur, watch>>
    BY <1>7 DEF AskAll, TypeOK
  <2>2. pc'[w] = pc[w]
    BY <1>0, <1>7, <2>1 DEF AskAll, TypeOK
  <2>. QED
    BY <1>1, <1>2, <2>1, <2>2
<1>8. ASSUME NEW v \in Requests, NEW k \in Ids, AskOne(v, k)
      PROVE  cur'[w].id \in watch'[w]
  <2>1. pc'[v] = "try" /\ UNCHANGED <<inFlight, watch>>
    BY <1>8 DEF AskOne, TypeOK
  <2>2. v # w
    BY <1>0, <2>1
  <2>3. pc'[w] = pc[w] /\ cur'[w] = cur[w]
    BY <1>0, <1>8, <2>2 DEF AskOne, TypeOK
  <2>. QED
    BY <1>1, <1>2, <2>1, <2>3
<1>9. CASE UNCHANGED vars
  BY <1>4, <1>9 DEF vars, worker
<1>. QED
  BY <1>2, <1>3, <1>5, <1>6, <1>7, <1>8, <1>9 DEF Next

----------------------------------------------------------------------------
(* Entries *)

LEMMA SameConfig ==
    ASSUME NEW c \in Config, NEW d \in Config, c.url = d.url,
           c.hosts = d.hosts
    PROVE  c = d
BY DEF Config

LEMMA EntriesInit == Init => EntriesAreCurrent
<1> SUFFICES ASSUME Init, NEW i \in Present(feeds)
             PROVE  feeds[i].entries = {} /\ ~feeds[i].synced
  BY DEF EntriesAreCurrent
<1>1. PICK c \in Config :
          feeds = [j \in Ids |-> IF j <= created THEN NewFeed(j, j, c)
                                 ELSE NoFeed]
  BY DEF Init
<1>2. feeds[i] = NewFeed(i, i, c)
  BY <1>1 DEF Present
<1>. QED
  BY <1>2 DEF NewFeed

\* A row that is stored over keeps EntriesAreCurrent if its new contents have
\* it, and the others are left alone.
LEMMA OneRow ==
    ASSUME TypeOK, EntriesAreCurrent, NEW i \in Ids,
           \A j \in Ids \ {i} : UNCHANGED <<feeds[j], replay[j]>>,
           feeds'[i] # NoFeed =>
              /\ feeds'[i].entries # {} => feeds'[i].from = feeds'[i].config
              /\ feeds'[i].synced => replay'[i] = feeds'[i].entries
    PROVE  EntriesAreCurrent'
BY DEF EntriesAreCurrent, Present

LEMMA EntriesStep ==
    TypeOK /\ TypeOK' /\ PcInv /\ IdInv /\ EntriesAreCurrent /\ [Next]_vars
    => EntriesAreCurrent'
<1> SUFFICES ASSUME TypeOK, TypeOK', PcInv, IdInv, EntriesAreCurrent,
                    [Next]_vars
             PROVE  EntriesAreCurrent'
  OBVIOUS
<1> USE DEF TablesStay, tables
<1>1. ASSUME UNCHANGED <<feeds, replay>> PROVE EntriesAreCurrent'
  BY <1>1 DEF EntriesAreCurrent, Present
<1>2. ASSUME NEW w \in Workers, Commit(w) PROVE EntriesAreCurrent'
  <2>1. CASE UNCHANGED <<feeds, mode, replay>>
    BY <1>1, <2>1
  <2>2. CASE ~UNCHANGED <<feeds, mode, replay>>
    <3>1. PICK i \in Ids, es \in SUBSET Entries :
                 /\ i = cur[w].id
                 /\ feeds[i] \in Feed /\ cur[w].config \in Config
                 /\ Unchanged(feeds[i], w)
                 /\ feeds' = [feeds EXCEPT ![i] =
                                Stored(feeds[i], es, cur[w].config)]
                 /\ replay' = [replay EXCEPT ![i] =
                                 Replayed(feeds[i], replay[i], es)]
      BY <1>2, <2>2, CommitRows
    <3>2. feeds[i].config = cur[w].config
      <4>1. feeds[i].config \in Config
        BY <3>1 DEF Feed
      <4>. QED
        BY <3>1, <4>1, SameConfig DEF Unchanged, SameButHosts
    <3>3. feeds'[i].from = feeds'[i].config /\ feeds'[i].entries = es
      BY <3>1, <3>2, CommitRow DEF TypeOK
    <3>4. Replayed(feeds[i], replay[i], es) = es
      <4>1. CASE ~feeds[i].synced
        BY <4>1 DEF Replayed
      <4>2. CASE feeds[i].synced
        <5>1. replay[i] = feeds[i].entries
          BY <3>1, <4>2, Names DEF EntriesAreCurrent, Present
        <5>. QED
          BY <4>2, <5>1 DEF Replayed, Recordable
      <4>. QED
        BY <4>1, <4>2
    <3>5. replay'[i] = es
      BY <3>1, <3>4 DEF TypeOK
    <3>6. \A j \in Ids \ {i} : UNCHANGED <<feeds[j], replay[j]>>
      BY <3>1 DEF TypeOK
    <3>. QED
      BY <3>3, <3>5, <3>6, OneRow
  <2>. QED
    BY <2>1, <2>2
<1>3. ASSUME NEW w \in Workers, PersistError(w) PROVE EntriesAreCurrent'
  <2>1. CASE UNCHANGED feeds
    BY <1>1, <1>3, <2>1, ErrorRows
  <2>2. CASE ~UNCHANGED feeds
    <3>1. PICK i \in Ids, c \in Config :
                    /\ feeds[i] \in Feed
                    /\ feeds' = [feeds EXCEPT ![i] = Failed(feeds[i], c)]
      BY <1>3, <2>2, ErrorRows
    <3>2. feeds'[i] = Failed(feeds[i], c) /\ UNCHANGED replay
      BY <1>3, <3>1, ErrorRows DEF TypeOK
    <3>3. \A j \in Ids \ {i} : UNCHANGED <<feeds[j], replay[j]>>
      BY <3>1, <3>2 DEF TypeOK
    <3>4. feeds[i] # NoFeed
      BY <3>1, Names
    <3>. QED
      BY <3>1, <3>2, <3>3, <3>4, ErrorRow, OneRow
      DEF EntriesAreCurrent, Present
  <2>. QED
    BY <2>1, <2>2
<1>4. ASSUME NEW w \in Workers, Sync(w), ~Commit(w), ~PersistError(w)
      PROVE  UNCHANGED <<feeds, replay>>
  BY <1>4 DEF Sync, Take, Lock, Mark, Fail, Finish, List, ListDone, Reconcile,
              TryLock, Admit, Recheck, CheckAll
<1>5. ASSUME NEW i \in Ids, NEW c \in Config, Create(i, c)
      PROVE  EntriesAreCurrent'
  <2>1. /\ feeds'[i] = NewFeed(i, created + 1, c)
        /\ replay'[i] = {}
        /\ \A j \in Ids \ {i} : UNCHANGED <<feeds[j], replay[j]>>
    BY <1>5, CreateRow DEF TypeOK, Create
  <2>. QED
    BY <2>1, OneRow DEF NewFeed
<1>6. ASSUME NEW i \in Ids, NEW c \in Config, NEW on \in BOOLEAN,
             Update(i, c, on)
      PROVE  EntriesAreCurrent'
  <2>1. /\ feeds'[i] = Updated(feeds[i], c, on)
        /\ UNCHANGED replay
        /\ \A j \in Ids \ {i} : UNCHANGED <<feeds[j], replay[j]>>
    <3>1. feeds' = [feeds EXCEPT ![i] = Updated(feeds[i], c, on)]
      BY <1>6, UpdateRow
    <3>2. UNCHANGED replay
      BY <1>6 DEF Update
    <3>. QED
      BY <3>1, <3>2 DEF TypeOK
  <2>2. feeds[i] \in Feed /\ feeds[i] # NoFeed
    BY <1>6, UpdateRow, Names
  <2>3. CASE c = feeds[i].config
    BY <2>1, <2>2, <2>3, OneRow
    DEF Updated, EntriesAreCurrent, Present, Feed
  <2>4. CASE c # feeds[i].config
    <3>1. feeds'[i].entries = {} /\ ~feeds'[i].synced
      BY <2>1, <2>4 DEF Updated, NewFeed
    <3>. QED
      BY <2>1, <3>1, OneRow
  <2>. QED
    BY <2>3, <2>4
<1>7. ASSUME NEW i \in Ids, Delete(i) PROVE EntriesAreCurrent'
  BY <1>7 DEF Delete, EntriesAreCurrent, Present, TypeOK
<1>8. CASE EditAdapter \/ Forget \/ ReconcileEdit \/ StartLoop \/ Restart
  BY <1>1, <1>8 DEF EditAdapter, Forget, ReconcileEdit, StartLoop, Restart
<1>9. ASSUME NEW w \in Requests, AskAll(w) \/ \E i \in Ids : AskOne(w, i)
      PROVE  UNCHANGED <<feeds, replay>>
  BY <1>9 DEF AskAll, AskOne
<1>10. CASE UNCHANGED vars
  BY <1>1, <1>10 DEF vars
<1>. QED
  BY <1>1, <1>2, <1>3, <1>4, <1>5, <1>6, <1>7, <1>8, <1>9, <1>10
  DEF Next, Edit

----------------------------------------------------------------------------
(* What is announced *)

\* A row that comes, or is stored over, with the entries and the flag of the
\* old one leaves the merge as it was.
LEMMA SameMerge ==
    ASSUME TypeOK, TypeOK', NEW i \in Ids,
           \A j \in Ids \ {i} : UNCHANGED feeds[j],
           feeds[i] = NoFeed => feeds'[i] # NoFeed /\ feeds'[i].entries = {},
           feeds[i] # NoFeed => /\ feeds'[i] # NoFeed
                                /\ feeds'[i].entries = feeds[i].entries
                                /\ feeds'[i].enabled = feeds[i].enabled
    PROVE  Merge(feeds') = Merge(feeds)
<1>1. ASSUME NEW j \in Enabled(feeds), NEW e \in feeds[j].entries
      PROVE  j \in Enabled(feeds') /\ e \in feeds'[j].entries
  BY <1>1 DEF Enabled, Present
<1>2. ASSUME NEW j \in Enabled(feeds'), NEW e \in feeds'[j].entries
      PROVE  j \in Enabled(feeds) /\ e \in feeds[j].entries
  BY <1>2 DEF Enabled, Present
<1>. QED
  BY <1>1, <1>2 DEF Merge

LEMMA ModeInit == Init => ModeInv
<1> SUFFICES ASSUME Init, NEW i \in Enabled(feeds)
             PROVE  feeds[i].entries = {}
  BY DEF Init, ModeInv, Merge
<1>1. PICK c \in Config :
          feeds = [j \in Ids |-> IF j <= created THEN NewFeed(j, j, c)
                                 ELSE NoFeed]
  BY DEF Init
<1>2. i \in Ids /\ feeds[i] = NewFeed(i, i, c)
  BY <1>1 DEF Enabled, Present
<1>. QED
  BY <1>2 DEF NewFeed

\* The steps after which the merge may be another one leave somebody who will
\* announce it, and the others do not change it.
Rewrites == \/ \E w \in Workers : Commit(w)
            \/ \E i \in Ids : \/ Delete(i)
                              \/ \E c \in Config, on \in BOOLEAN :
                                    Update(i, c, on)

LEMMA ModeStep ==
    ASSUME TypeOK, TypeOK', PcInv, IdInv, ModeInv, [Next]_vars
    PROVE  /\ ModeInv'
           /\ ~Rewrites => Merge(feeds') = Merge(feeds)
<1> USE DEF TablesStay, tables
<1>1. ASSUME UNCHANGED <<feeds, mode>>
      PROVE  ModeInv' /\ Merge(feeds') = Merge(feeds)
  BY <1>1 DEF ModeInv
<1>2. ASSUME NEW w \in Workers, Commit(w) PROVE ModeInv' /\ Rewrites
  <2>1. Rewrites
    BY <1>2 DEF Rewrites
  <2>2. CASE UNCHANGED <<feeds, mode, replay>>
    BY <1>1, <2>1, <2>2
  <2>3. CASE mode' = Merge(feeds')
    BY <2>1, <2>3 DEF ModeInv
  <2>. QED
    BY <1>2, <2>2, <2>3, CommitRows
<1>3. ASSUME NEW w \in Workers, PersistError(w)
      PROVE  ModeInv' /\ Merge(feeds') = Merge(feeds)
  <2>1. UNCHANGED mode
    BY <1>3, ErrorRows
  <2>2. CASE UNCHANGED feeds
    BY <1>1, <2>1, <2>2
  <2>3. ASSUME NEW i \in Ids, NEW c \in Config, feeds[i] \in Feed,
               feeds' = [feeds EXCEPT ![i] = Failed(feeds[i], c)]
        PROVE  Merge(feeds') = Merge(feeds)
    <3>1. feeds'[i] = Failed(feeds[i], c)
      BY <2>3 DEF TypeOK
    <3>2. \A j \in Ids \ {i} : UNCHANGED feeds[j]
      BY <2>3 DEF TypeOK
    <3>3. feeds[i] # NoFeed /\ feeds'[i] # NoFeed
      BY <2>3, <3>1, ErrorRow, Names
    <3>4. /\ feeds'[i].entries = feeds[i].entries
          /\ feeds'[i].enabled = feeds[i].enabled
      BY <2>3, <3>1, ErrorRow
    <3>. QED
      BY <3>2, <3>3, <3>4, SameMerge
  <2>4. Merge(feeds') = Merge(feeds)
    BY <1>3, <2>2, <2>3, ErrorRows
  <2>. QED
    BY <2>1, <2>4 DEF ModeInv
<1>4. ASSUME NEW w \in Workers, Sync(w), ~Commit(w), ~PersistError(w)
      PROVE  UNCHANGED <<feeds, mode>>
  BY <1>4 DEF Sync, Take, Lock, Mark, Fail, Finish, List, ListDone, Reconcile,
              TryLock, Admit, Recheck, CheckAll
<1>5. ASSUME NEW i \in Ids, NEW c \in Config, Create(i, c)
      PROVE  ModeInv' /\ Merge(feeds') = Merge(feeds)
  <2>1. /\ feeds[i] = NoFeed
        /\ feeds'[i] = NewFeed(i, created + 1, c)
        /\ NewFeed(i, created + 1, c) # NoFeed
        /\ \A j \in Ids \ {i} : UNCHANGED feeds[j]
    BY <1>5, CreateRow, Names DEF TypeOK
  <2>2. feeds'[i].entries = {}
    BY <2>1 DEF NewFeed
  <2>3. Merge(feeds') = Merge(feeds)
    BY <2>1, <2>2, SameMerge
  <2>4. UNCHANGED mode
    BY <1>5 DEF Create
  <2>. QED
    BY <2>3, <2>4 DEF ModeInv
<1>6. ASSUME NEW i \in Ids, NEW c \in Config, NEW on \in BOOLEAN,
             Update(i, c, on)
      PROVE  ModeInv' /\ Rewrites
  BY <1>6 DEF Update, Rebuilt, ModeInv, Rewrites
<1>7. ASSUME NEW i \in Ids, Delete(i) PROVE ModeInv' /\ Rewrites
  BY <1>7 DEF Delete, Rebuilt, ModeInv, Rewrites
<1>8. CASE EditAdapter \/ Forget \/ ReconcileEdit \/ StartLoop \/ Restart
  BY <1>1, <1>8 DEF EditAdapter, Forget, ReconcileEdit, StartLoop, Restart
<1>9. ASSUME NEW w \in Requests, AskAll(w) \/ \E i \in Ids : AskOne(w, i)
      PROVE  UNCHANGED <<feeds, mode>>
  BY <1>9 DEF AskAll, AskOne
<1>10. CASE UNCHANGED vars
  BY <1>1, <1>10 DEF vars
<1>. QED
  BY <1>1, <1>2, <1>3, <1>4, <1>5, <1>6, <1>7, <1>8, <1>9, <1>10
  DEF Next, Edit

\* One that will announce what was merged still will.
Announces(w) == \/ w \in {Loop, inFlight} /\ pc[w] \notin {"idle", "check"}
                \/ pc[w] \in {"done", "reconcile"}

LEMMA AnnouncerStays ==
    ASSUME TypeOK, TypeOK', PcInv, NEW w \in Workers, Sync(w), WillReconcile
    PROVE  WillReconcile' \/ announced' = mode
<1> USE Names DEF At, Go, editor, syncer
<1>1. CASE Reconcile(w)
  BY <1>1 DEF Reconcile
<1>2. CASE ~Reconcile(w)
  <2>1. edit' = edit
    BY <1>2 DEF Sync, Take, Lock, Mark, Commit, Fail, PersistError, Finish,
         List, ListDone, TryLock, Admit, Recheck, CheckAll
  <2>2. CASE edit \in {"forget", "reconcile"}
    BY <2>1, <2>2 DEF WillReconcile
  <2>3. ASSUME NEW v \in Workers, Announces(v) PROVE Announces(v)'
    <3>1. CASE CheckAll(w)
      BY <2>3, <3>1 DEF CheckAll, FlagReset, Announces, PcInv, Workers, TypeOK
    <3>2. CASE ~CheckAll(w)
      <4>1. inFlight' = inFlight
        BY <1>2, <3>2 DEF Sync, Take, Lock, Mark, Commit, Fail, PersistError,
             Finish, List, ListDone, TryLock, Admit, Recheck
      <4>2. CASE v # w
        <5>1. pc'[v] = pc[v]
          <6>1. CASE TryLock(w) \/ Recheck(w)
            BY <4>2, <6>1 DEF TryLock, Recheck, Refused, TypeOK
          <6>2. CASE ~(TryLock(w) \/ Recheck(w))
            BY <1>2, <3>2, <4>2, <6>2 DEF Sync, Take, Lock, Mark, Commit,
                 Fail, PersistError, Finish, List, ListDone, Admit, TypeOK
          <6>. QED
            BY <6>1, <6>2
        <5>. QED
          BY <2>3, <4>1, <5>1 DEF Announces
      <4>3. CASE v = w
        <5>1. CASE TryLock(w) \/ Recheck(w) \/ Admit(w)
          BY <2>3, <4>3, <5>1
          DEF TryLock, Recheck, Admit, Announces, PcInv, Workers
        <5>2. CASE Finish(w)
          BY <2>3, <4>1, <4>3, <5>2 DEF Finish, Next1, Announces, TypeOK
        <5>3. CASE ~(TryLock(w) \/ Recheck(w) \/ Admit(w) \/ Finish(w))
          BY <1>2, <2>3, <3>2, <4>1, <4>3, <5>3 DEF Sync, Take, Lock, Mark,
             Commit, Fail, PersistError, List, ListDone, Announces, TypeOK
        <5>. QED
          BY <5>1, <5>2, <5>3
      <4>. QED
        BY <4>2, <4>3
    <3>. QED
      BY <3>1, <3>2
  <2>. QED
    BY <2>2, <2>3 DEF WillReconcile, Announces
<1>. QED
  BY <1>1, <1>2

LEMMA AnnouncedInit == Init => FeedsAreAnnounced
BY ModeInit DEF Init, ModeInv, FeedsAreAnnounced

LEMMA AnnouncedStep ==
    TypeOK /\ TypeOK' /\ PcInv /\ IdInv /\ ModeInv /\ FeedsAreAnnounced
    /\ [Next]_vars
    => FeedsAreAnnounced'
<1> SUFFICES ASSUME TypeOK, TypeOK', PcInv, IdInv, ModeInv, FeedsAreAnnounced,
                    [Next]_vars
             PROVE  FeedsAreAnnounced'
  OBVIOUS
<1> USE DEF TablesStay, tables
<1>1. CASE announced' = mode'
  BY <1>1, ModeStep DEF ModeInv, FeedsAreAnnounced
<1>2. CASE WillReconcile'
  BY <1>2 DEF FeedsAreAnnounced
<1>3. ASSUME Merge(feeds') = Merge(feeds), UNCHANGED announced,
             WillReconcile => WillReconcile'
      PROVE  FeedsAreAnnounced'
  BY <1>3 DEF FeedsAreAnnounced
<1>4. ASSUME NEW w \in Workers, Sync(w) PROVE FeedsAreAnnounced'
  <2>1. CASE Reconcile(w)
    BY <1>1, <2>1 DEF Reconcile
  <2>2. CASE Commit(w)
    <3>1. pc'[w] = "done"
      BY <2>2 DEF Commit, Go, TypeOK
    <3>. QED
      BY <1>2, <3>1 DEF WillReconcile
  <2>3. CASE ~Reconcile(w) /\ ~Commit(w)
    <3>1. UNCHANGED announced /\ UNCHANGED mode
      BY <1>4, <2>3, ErrorRows DEF Sync, Take, Lock, Mark, Fail, PersistError,
           Finish, List, ListDone, TryLock, Admit, Recheck, CheckAll
    <3>2. Merge(feeds') = Merge(feeds)
      BY <3>1, ModeStep DEF ModeInv
    <3>. QED
      BY <1>1, <1>3, <1>4, <3>1, <3>2, AnnouncerStays
  <2>. QED
    BY <2>1, <2>2, <2>3
<1>5. ASSUME NEW i \in Ids, NEW c \in Config, Create(i, c)
      PROVE  FeedsAreAnnounced'
  <2>1. UNCHANGED <<mode, announced, pc, inFlight, edit>>
    BY <1>5 DEF Create, worker, syncer
  <2>2. Merge(feeds') = Merge(feeds)
    BY <2>1, ModeStep DEF ModeInv
  <2>. QED
    BY <1>3, <2>1, <2>2 DEF WillReconcile
<1>6. ASSUME NEW i \in Ids,
             Delete(i) \/ \E c \in Config, on \in BOOLEAN : Update(i, c, on)
      PROVE  FeedsAreAnnounced'
  BY <1>2, <1>6 DEF Delete, Update, WillReconcile
<1>7. CASE EditAdapter
  <2>1. UNCHANGED <<feeds, announced, pc, inFlight, edit>>
    BY <1>7 DEF EditAdapter, syncer
  <2>. QED
    BY <1>3, <2>1 DEF WillReconcile
<1>8. CASE Forget
  BY <1>2, <1>8 DEF Forget, WillReconcile
<1>9. CASE ReconcileEdit \/ Restart
  BY <1>1, <1>9 DEF ReconcileEdit, Restart
<1>10. CASE StartLoop
  <2>1. UNCHANGED <<feeds, announced, inFlight, edit>>
        /\ pc' = [pc EXCEPT ![Loop] = "list"] /\ pc[Loop] = "idle"
    BY <1>10 DEF StartLoop, At, Go, syncer, editor
  <2>. QED
    BY <1>3, <2>1, Names DEF WillReconcile, TypeOK
<1>11. ASSUME NEW w \in Requests, AskAll(w) PROVE FeedsAreAnnounced'
  <2>1. UNCHANGED <<feeds, announced, edit>>
        /\ pc' = [pc EXCEPT ![w] = "check"] /\ pc[w] = "idle"
        /\ inFlight = NoOne
    BY <1>11 DEF AskAll, At, Go, editor
  <2>. QED
    BY <1>3, <2>1, Names DEF WillReconcile, TypeOK, Workers
<1>12. ASSUME NEW w \in Requests, NEW i \in Ids, AskOne(w, i)
       PROVE  FeedsAreAnnounced'
  <2>1. UNCHANGED <<feeds, announced, inFlight, edit>>
        /\ pc' = [pc EXCEPT ![w] = "try"] /\ pc[w] = "idle"
    BY <1>12 DEF AskOne, At, Go, syncer, editor
  <2>. QED
    BY <1>3, <2>1, Names DEF WillReconcile, TypeOK
<1>13. CASE UNCHANGED vars
  <2>1. UNCHANGED <<feeds, announced, pc, inFlight, edit>>
    BY <1>13 DEF vars, worker, syncer, editor
  <2>. QED
    BY <1>3, <2>1 DEF WillReconcile
<1>. QED
  BY <1>4, <1>5, <1>6, <1>7, <1>8, <1>9, <1>10, <1>11, <1>12, <1>13
  DEF Next, Edit

----------------------------------------------------------------------------
(* Requests for all feeds and for one *)

\* From its admission to its end, the feed of a request for one is marked,
\* while it is the first of its id.
MarkInv ==
    \A v \in Requests :
        /\ pc[v] \in {"recheck", "mark", "run", "fail", "done", "failed"}
        /\ inFlight # v
        /\ Original(cur[v].id)
        => cur[v].id \in syncing
AloneInv ==
    \A w, v \in Requests :
        w # v /\ inFlight = w /\ Running(w) /\ Running(v)
        => ~Original(cur[v].id)

\* The flag is set by the request whose flag it is, and reset by it.
LEMMA FlagSteps ==
    ASSUME TypeOK, PcInv, [Next]_vars, ~Restart, NEW v \in Requests
    PROVE  /\ inFlight = v /\ inFlight' # v =>
                  pc'[v] \notin {"recheck", "mark", "run", "fail", "done",
                                 "failed"}
           /\ inFlight # v /\ inFlight' = v => pc'[v] = "check"
<1> USE Names DEF TablesStay, tables, editor, syncer, At, Go
<1> DEFINE Goal == /\ inFlight = v /\ inFlight' # v =>
                          pc'[v] \notin {"recheck", "mark", "run", "fail",
                                         "done", "failed"}
                   /\ inFlight # v /\ inFlight' = v => pc'[v] = "check"
<1>0. v \in Workers
  BY DEF Workers
<1>1. ASSUME NEW w \in Workers, Sync(w) PROVE Goal
  <2>1. CASE Reconcile(w)
    BY <1>0, <2>1 DEF Reconcile, TypeOK
  <2>2. CASE CheckAll(w)
    <3>1. w \in Requests /\ inFlight = w
      BY <2>2 DEF CheckAll, PcInv, Workers
    <3>. QED
      BY <1>0, <2>2, <3>1 DEF CheckAll, FlagReset, TypeOK
  <2>3. CASE ~(Reconcile(w) \/ CheckAll(w))
    <3>1. inFlight' = inFlight
      BY <1>1, <2>3 DEF Sync, Take, Lock, Mark, Commit, Fail, PersistError,
           Finish, List, ListDone, TryLock, Admit, Recheck
    <3>. QED
      BY <3>1
  <2>. QED
    BY <2>1, <2>2, <2>3
<1>2. ASSUME NEW w \in Requests, AskAll(w) PROVE Goal
  BY <1>0, <1>2 DEF AskAll, TypeOK
<1>3. CASE inFlight' = inFlight
  BY <1>3
<1>4. CASE StartLoop \/ Edit \/ Forget \/ ReconcileEdit \/ UNCHANGED vars
  <2>1. inFlight' = inFlight
    BY <1>4 DEF StartLoop, Edit, Create, Update, Delete, EditAdapter, Forget,
         ReconcileEdit, vars
  <2>. QED
    BY <1>3, <2>1
<1>5. ASSUME NEW w \in Requests, NEW i \in Ids, AskOne(w, i) PROVE Goal
  <2>1. inFlight' = inFlight
    BY <1>5 DEF AskOne
  <2>. QED
    BY <1>3, <2>1
<1>. QED
  BY <1>1, <1>2, <1>4, <1>5 DEF Next

\* Between its admission and its end, a request is moved by itself alone.
LEMMA OthersStepsLeave ==
    ASSUME TypeOK, PcInv, [Next]_vars, ~Restart, NEW v \in Workers,
           ~Sync(v), pc[v] # "idle"
    PROVE  pc'[v] = pc[v] /\ cur'[v] = cur[v]
<1> USE Names DEF TablesStay, tables, editor, syncer, At, Go
<1>1. ASSUME NEW w \in Workers, w # v, Sync(w)
      PROVE  pc'[v] = pc[v] /\ cur'[v] = cur[v]
  <2>1. CASE TryLock(w) \/ Recheck(w)
    BY <1>1, <2>1 DEF TryLock, Recheck, Refused, TypeOK
  <2>2. CASE ~(TryLock(w) \/ Recheck(w))
    BY <1>1, <2>2 DEF Sync, Take, Lock, Mark, Commit, Fail, PersistError,
         Finish, List, ListDone, Reconcile, Admit, CheckAll, TypeOK
  <2>. QED
    BY <2>1, <2>2
<1>2. CASE Edit \/ Forget \/ ReconcileEdit \/ UNCHANGED vars
  BY <1>2 DEF Edit, Create, Update, Delete, EditAdapter, Forget,
       ReconcileEdit, vars, worker
<1>3. CASE StartLoop
  BY <1>3 DEF StartLoop, TypeOK
<1>4. ASSUME NEW w \in Requests, AskAll(w)
      PROVE  pc'[v] = pc[v] /\ cur'[v] = cur[v]
  BY <1>4 DEF AskAll, TypeOK
<1>5. ASSUME NEW w \in Requests, NEW i \in Ids, AskOne(w, i)
      PROVE  pc'[v] = pc[v] /\ cur'[v] = cur[v]
  BY <1>5 DEF AskOne, TypeOK
<1>. QED
  BY <1>1, <1>2, <1>3, <1>4, <1>5 DEF Next

\* Nobody but its own worker, or its deletion, takes the mark off such a feed.
LEMMA MarkStays ==
    ASSUME TypeOK, PcInv, LockInv, MutexInv, [Next]_vars, ~Restart,
           NEW v \in Workers, ~Sync(v), pc[v] \in Locked,
           Original(cur[v].id), cur[v].id \in syncing
    PROVE  cur[v].id \in syncing'
<1> USE Names DEF TablesStay, tables, editor, syncer, At, Go
<1>0. cur[v] # NoFeed /\ cur[v].id \in Ids
  BY CopyType DEF PcInv, Locked, Holding, Copying
<1>1. ASSUME NEW w \in Workers, w # v, Sync(w)
      PROVE  cur[v].id \in syncing'
  <2>1. CASE Finish(w) \/ Recheck(w)
    <3>1. pc[w] \in Locked
      BY <2>1 DEF Finish, Recheck, Locked, Holding, Copying
    <3>2. mine[w] # mine[v]
      BY <1>1, <3>1 DEF LockInv
    <3>3. cur[w].id # cur[v].id
      BY <1>0, <3>1, <3>2 DEF MutexInv, Locked
    <3>4. syncing' \in {syncing, syncing \ {cur[w].id}}
      BY <2>1 DEF Finish, Recheck
    <3>. QED
      BY <3>3, <3>4
  <2>2. CASE ~(Finish(w) \/ Recheck(w))
    <3>1. syncing \subseteq syncing'
      BY <1>1, <2>2 DEF Sync, Take, Lock, Mark, Commit, Fail, PersistError,
           List, ListDone, Reconcile, TryLock, Admit, CheckAll
    <3>. QED
      BY <3>1
  <2>. QED
    BY <2>1, <2>2
<1>2. CASE Forget
  BY <1>0, <1>2 DEF Forget, MutexInv
<1>3. CASE Edit \/ ReconcileEdit \/ UNCHANGED vars \/ StartLoop
  BY <1>3 DEF Edit, Create, Update, Delete, EditAdapter, ReconcileEdit, vars,
       StartLoop
<1>4. ASSUME NEW w \in Requests, AskAll(w) PROVE cur[v].id \in syncing'
  BY <1>4 DEF AskAll
<1>5. ASSUME NEW w \in Requests, NEW i \in Ids, AskOne(w, i)
      PROVE  cur[v].id \in syncing'
  BY <1>5 DEF AskOne
<1>. QED
  BY <1>1, <1>2, <1>3, <1>4, <1>5 DEF Next

\* A feed that somebody has a copy of is not the first of its id anew.
LEMMA CopiedOriginal ==
    ASSUME TypeOK, PcInv, IdInv, [Next]_vars, ~Restart, NEW v \in Workers,
           cur[v] # NoFeed, cur'[v] = cur[v], Original(cur[v].id)'
    PROVE  Original(cur[v].id)
<1>1. cur[v].id \in Ids /\ cur[v].id <= created
  BY CopyType DEF IdInv
<1>2. cur[v].id \in Nat /\ created \in Nat
  BY IdsAreNat
<1>3. PICK i \in Ids : i = cur[v].id
  BY <1>1
<1>4. Original(i)' /\ ~(created < i)
  BY <1>1, <1>2, <1>3 DEF Original
<1>. QED
  BY <1>3, <1>4, OriginalStays

\* A worker's step moves that worker.
LEMMA OneMoves ==
    ASSUME TypeOK, NEW v \in Workers, NEW w \in Workers, w # v, Sync(w)
    PROVE  pc'[v] = pc[v]
<1>1. CASE TryLock(w) \/ Recheck(w)
  BY <1>1 DEF TryLock, Recheck, Refused, TypeOK, Go, At
<1>2. CASE ~(TryLock(w) \/ Recheck(w))
  BY <1>2 DEF Sync, Take, Lock, Mark, Commit, Fail, PersistError, Finish, List,
       ListDone, Reconcile, Admit, CheckAll, TypeOK, Go, At
<1>. QED
  BY <1>1, <1>2

\* What becomes of an idle request.
LEMMA IdleSteps ==
    ASSUME TypeOK, [Next]_vars, ~Restart, NEW v \in Workers, ~Sync(v),
           pc[v] = "idle"
    PROVE  pc'[v] \in {"idle", "try", "check", "list"}
<1>1. ASSUME NEW w \in Workers, w # v, Sync(w) PROVE pc'[v] = pc[v]
  BY <1>1, OneMoves
<1>2. CASE Edit \/ Forget \/ ReconcileEdit \/ UNCHANGED vars
  BY <1>2 DEF Edit, Create, Update, Delete, EditAdapter, Forget,
       ReconcileEdit, vars, worker
<1>3. CASE StartLoop
  BY <1>3, Names DEF StartLoop, TypeOK, Go
<1>4. ASSUME NEW w \in Requests, AskAll(w)
      PROVE  pc'[v] \in {"idle", "try", "check", "list"}
  BY <1>4 DEF AskAll, TypeOK, Go
<1>5. ASSUME NEW w \in Requests, NEW i \in Ids, AskOne(w, i)
      PROVE  pc'[v] \in {"idle", "try", "check", "list"}
  BY <1>5 DEF AskOne, TypeOK, Go
<1>. QED
  BY <1>1, <1>2, <1>3, <1>4, <1>5 DEF Next

\* A request marks its feed, and keeps the mark.
LEMMA MarkOwn ==
    ASSUME TypeOK, PcInv, IdInv, MarkInv, [Next]_vars, ~Restart,
           NEW v \in Requests, Sync(v), inFlight' # v, Original(cur[v].id)',
           pc'[v] \in {"recheck", "mark", "run", "fail", "done", "failed"}
    PROVE  cur'[v] = cur[v] /\ cur[v].id \in syncing'
<1> USE Names DEF TablesStay, tables, editor, syncer, At, Go
<1>0. v \in Workers
  BY DEF Workers
<1>1. CASE Mark(v) \/ Admit(v)
  BY <1>0, <1>1 DEF Mark, Admit, TypeOK
<1>2. CASE Commit(v) \/ Fail(v) \/ PersistError(v)
  <2>1. pc[v] \in {"run", "fail"} /\ inFlight' = inFlight /\ cur' = cur
        /\ syncing' = syncing
    BY <1>2 DEF Commit, Fail, PersistError
  <2>2. cur[v] # NoFeed
    BY <1>0, <2>1 DEF PcInv, Copying
  <2>3. Original(cur[v].id)
    BY <1>0, <2>1, <2>2, CopiedOriginal
  <2>. QED
    BY <2>1, <2>3 DEF MarkInv
<1>3. CASE Recheck(v)
  <2>1. FlagClear(v)
    BY <1>0, <1>3 DEF Recheck, Refused, TypeOK
  <2>2. pc[v] = "recheck" /\ inFlight' = inFlight /\ cur' = cur
        /\ syncing' = syncing
    BY <1>3, <2>1 DEF Recheck
  <2>3. cur[v] # NoFeed
    BY <1>0, <2>2 DEF PcInv, Copying
  <2>4. Original(cur[v].id)
    BY <1>0, <2>2, <2>3, CopiedOriginal
  <2>. QED
    BY <2>2, <2>4 DEF MarkInv
<1>4. CASE Lock(v)
  <2>1. pc[v] = "lock" /\ inFlight' = inFlight
    BY <1>4 DEF Lock
  <2>2. inFlight = v
    BY <2>1 DEF PcInv
  <2>. QED
    BY <2>1, <2>2
<1>5. CASE (\E f \in todo[v] : Take(v, f)) \/ Finish(v) \/ List(v)
           \/ ListDone(v) \/ Reconcile(v) \/ TryLock(v) \/ CheckAll(v)
  <2>1. pc'[v] \in {"lock", "next", "idle", "reconcile", "admit", "list"}
    BY <1>0, <1>5 DEF Take, Finish, Next1, List, ListDone, Reconcile, TryLock,
         Refused, CheckAll, TypeOK
  <2>. QED
    BY <2>1
<1>. QED
  BY <1>1, <1>2, <1>3, <1>4, <1>5 DEF Sync

LEMMA MarkStep ==
    TypeOK /\ TypeOK' /\ PcInv /\ PcInv' /\ LockInv /\ IdInv /\ MutexInv
    /\ MarkInv /\ [Next]_vars => MarkInv'
<1> SUFFICES ASSUME TypeOK, TypeOK', PcInv, PcInv', LockInv, IdInv, MutexInv,
                    MarkInv, [Next]_vars, NEW v \in Requests,
                    pc'[v] \in {"recheck", "mark", "run", "fail", "done",
                                "failed"},
                    inFlight' # v, Original(cur[v].id)'
             PROVE  cur'[v].id \in syncing'
  BY DEF MarkInv
<1>0. v \in Workers
  BY DEF Workers
<1>1. ~Restart
  <2>1. SUFFICES ASSUME Restart PROVE FALSE
    OBVIOUS
  <2>2. pc'[v] = "idle"
    BY <1>0, <2>1 DEF Restart
  <2>. QED
    BY <2>2
<1>2. CASE Sync(v)
  BY <1>1, <1>2, MarkOwn
<1>3. CASE ~Sync(v) /\ pc[v] = "idle"
  BY <1>0, <1>1, <1>3, IdleSteps
<1>4. CASE ~Sync(v) /\ pc[v] # "idle"
  <2>1. pc'[v] = pc[v] /\ cur'[v] = cur[v]
    BY <1>0, <1>1, <1>4, OthersStepsLeave
  <2>2. inFlight # v
    BY <1>1, <2>1, FlagSteps
  <2>3. pc[v] \in Locked
    BY <2>1 DEF Locked, Holding, Copying
  <2>4. cur[v] # NoFeed
    BY <1>0, <2>3 DEF PcInv, Locked, Holding
  <2>5. Original(cur[v].id)
    BY <1>0, <1>1, <2>1, <2>4, CopiedOriginal
  <2>6. cur[v].id \in syncing
    BY <2>1, <2>2, <2>5 DEF MarkInv
  <2>7. cur[v].id \in syncing'
    BY <1>0, <1>1, <1>4, <2>3, <2>5, <2>6, MarkStays
  <2>. QED
    BY <2>1, <2>7
<1>. QED
  BY <1>2, <1>3, <1>4

\* Nobody comes to synchronise a feed beside the request for all.
LEMMA AloneOwn ==
    ASSUME TypeOK, PcInv, IdInv, AloneInv, [Next]_vars, ~Restart,
           NEW v \in Requests, Sync(v), NEW w \in Requests, w # v,
           inFlight = w, pc[w] = pc'[w], Running(w),
           pc'[v] \in {"mark", "run", "fail", "done", "failed"}
    PROVE  ~Original(cur[v].id)'
<1> USE Names DEF TablesStay, tables, editor, syncer, At, Go
<1>0. v \in Workers
  BY DEF Workers
<1>1. CASE Mark(v) \/ Commit(v) \/ Fail(v) \/ PersistError(v)
  <2>1. pc[v] \in {"mark", "run", "fail"} /\ cur' = cur
    BY <1>1 DEF Mark, Commit, Fail, PersistError
  <2>2. cur[v] # NoFeed
    BY <1>0, <2>1 DEF PcInv, Copying
  <2>3. Running(v)
    BY <2>1 DEF Running
  <2>4. ~Original(cur[v].id)
    BY <2>3 DEF AloneInv
  <2>. QED
    BY <1>0, <2>1, <2>2, <2>4, CopiedOriginal
<1>2. CASE Recheck(v)
  <2>1. ~FlagClear(v)
    BY DEF FlagClear
  <2>2. pc'[v] = "idle"
    BY <1>0, <1>2, <2>1 DEF Recheck, Refused, TypeOK
  <2>. QED
    BY <2>2
<1>3. CASE Lock(v)
  <2>1. inFlight = v
    BY <1>3 DEF Lock, PcInv
  <2>. QED
    BY <2>1
<1>4. CASE (\E f \in todo[v] : Take(v, f)) \/ Finish(v) \/ List(v)
           \/ ListDone(v) \/ Reconcile(v) \/ TryLock(v) \/ CheckAll(v)
           \/ Admit(v)
  <2>1. pc'[v] \in {"lock", "next", "idle", "reconcile", "admit", "list",
                    "recheck"}
    BY <1>0, <1>4 DEF Take, Finish, Next1, List, ListDone, Reconcile, TryLock,
         Refused, CheckAll, Admit, TypeOK
  <2>. QED
    BY <2>1
<1>. QED
  BY <1>1, <1>2, <1>3, <1>4 DEF Sync

\* The request for all begins only when nothing is marked.
LEMMA AloneBegins ==
    ASSUME TypeOK, PcInv, MarkInv, [Next]_vars, ~Restart, NEW w \in Requests,
           inFlight = w, Running(w)', NEW v \in Requests, v # w,
           pc[v] \in {"mark", "run", "fail", "done", "failed"},
           Original(cur[v].id)
    PROVE  Running(w)
<1>0. w \in Workers
  BY DEF Workers
<1>1. SUFFICES ASSUME ~Running(w) PROVE FALSE
  OBVIOUS
<1>2. pc[w] \in {"check", "reconcile"}
  BY <1>0, <1>1 DEF Running, PcInv, TypeOK, Stages
<1>3. CASE ~Sync(w)
  <2>1. pc'[w] = pc[w]
    BY <1>0, <1>2, <1>3, OthersStepsLeave
  <2>. QED
    BY <1>2, <2>1 DEF Running
<1>4. CASE Sync(w)
  <2>1. CheckAll(w) \/ Reconcile(w)
    BY <1>2, <1>4 DEF Sync, Take, Lock, Mark, Commit, Fail, PersistError,
         Finish, List, ListDone, TryLock, Admit, Recheck, At
  <2>2. cur[v].id \in syncing
    BY DEF MarkInv
  <2>3. pc'[w] = "idle"
    BY <1>0, <2>1, <2>2 DEF CheckAll, Reconcile, Go, TypeOK
  <2>. QED
    BY <2>3 DEF Running
<1>. QED
  BY <1>3, <1>4

LEMMA AloneStep ==
    TypeOK /\ PcInv /\ PcInv' /\ IdInv /\ MarkInv /\ AloneInv /\ [Next]_vars
    => AloneInv'
<1> SUFFICES ASSUME TypeOK, PcInv, PcInv', IdInv, MarkInv, AloneInv,
                    [Next]_vars, NEW w \in Requests, NEW v \in Requests,
                    w # v, inFlight' = w, Running(w)', Running(v)',
                    Original(cur[v].id)'
             PROVE  FALSE
  BY DEF AloneInv
<1>0. v \in Workers /\ w \in Workers
  BY DEF Workers
<1>1. ~Restart
  <2>1. SUFFICES ASSUME Restart PROVE FALSE
    OBVIOUS
  <2>2. pc'[v] = "idle"
    BY <1>0, <2>1 DEF Restart
  <2>. QED
    BY <2>2 DEF Running
<1>2. inFlight = w
  BY <1>1, FlagSteps DEF Running
<1>3. pc'[v] \in {"mark", "run", "fail", "done", "failed"}
  BY DEF Running, PcInv
<1>4. CASE Sync(v)
  <2>1. pc'[w] = pc[w]
    BY <1>0, <1>4, OneMoves
  <2>2. Running(w)
    BY <2>1 DEF Running
  <2>. QED
    BY <1>1, <1>2, <1>3, <1>4, <2>1, <2>2, AloneOwn
<1>5. CASE ~Sync(v) /\ pc[v] = "idle"
  BY <1>0, <1>1, <1>3, <1>5, IdleSteps
<1>6. CASE ~Sync(v) /\ pc[v] # "idle"
  <2>1. pc'[v] = pc[v] /\ cur'[v] = cur[v]
    BY <1>0, <1>1, <1>6, OthersStepsLeave
  <2>2. cur[v] # NoFeed
    BY <1>0, <1>3, <2>1 DEF PcInv, Copying
  <2>3. Original(cur[v].id)
    BY <1>0, <1>1, <2>1, <2>2, CopiedOriginal
  <2>4. Running(w)
    BY <1>1, <1>2, <1>3, <2>1, <2>3, AloneBegins
  <2>5. Running(v)
    BY <1>3, <2>1 DEF Running
  <2>. QED
    BY <1>2, <2>3, <2>4, <2>5 DEF AloneInv
<1>. QED
  BY <1>4, <1>5, <1>6

----------------------------------------------------------------------------
(* The theorems *)

LEMMA InvInit == Init => IInv
BY TypeInit, PcInit, LockInit, IdInit, MutexInit, EntriesInit, ModeInit,
   AnnouncedInit DEF IInv

LEMMA InvStep == IInv /\ [Next]_vars => IInv'
<1> SUFFICES ASSUME IInv, [Next]_vars PROVE IInv'
  OBVIOUS
<1>1. TypeOK'
  BY TypeStep DEF IInv
<1>2. PcInv'
  BY <1>1, PcStep DEF IInv
<1>3. LockInv' /\ LeftInv'
  BY <1>1, LockStep DEF IInv
<1>4. IdInv'
  BY <1>1, IdStep DEF IInv
<1>5. MutexInv'
  BY <1>1, MutexStep DEF IInv
<1>6. WatchInv'
  BY <1>1, <1>2, WatchStep DEF IInv
<1>7. EntriesAreCurrent'
  BY <1>1, EntriesStep DEF IInv
<1>8. ModeInv'
  BY <1>1, ModeStep DEF IInv
<1>9. FeedsAreAnnounced'
  BY <1>1, AnnouncedStep DEF IInv
<1>. QED
  BY <1>1, <1>2, <1>3, <1>4, <1>5, <1>6, <1>7, <1>8, <1>9 DEF IInv

\* The invariant holds in every state of the specification.
THEOREM Invariance == Spec => []IInv
BY InvInit, InvStep, PTL DEF Spec

\* Every variable keeps its type, whatever the handlers of feeds.go and
\* handlers_api_feeds.go do.
THEOREM TypeCorrect == Spec => []TypeOK
<1>1. IInv => TypeOK
  BY DEF IInv
<1>. QED
  BY <1>1, Invariance, PTL

\* What a feed's transaction (syncOne) stored was downloaded with the
\* configuration the feed has, and the change log says the same.
THEOREM EntriesCurrent == Spec => []EntriesAreCurrent
<1>1. IInv => EntriesAreCurrent
  BY DEF IInv
<1>. QED
  BY <1>1, Invariance, PTL

\* Whoever changes what the feeds add up to has it announced (Reconcile after
\* SyncAll, SyncOne, UpdateFeed and DeleteFeed), or the next process does.
THEOREM FeedsAnnounced == Spec => []FeedsAreAnnounced
<1>1. IInv => FeedsAreAnnounced
  BY DEF IInv
<1>. QED
  BY <1>1, Invariance, PTL

\* A client that asked for one feed is not told of its end by another
\* synchronisation (unmarkSyncing under the feed's mutex), as long as no feed
\* has inherited an id.
THEOREM WatchOwn == Spec => []WatchIsOwn
<1>1. IInv => WatchIsOwn
  <2> SUFFICES ASSUME IInv, NEW w \in Requests, Running(w), inFlight # w,
                      feeds[cur[w].id] # NoFeed, ~Inherited
               PROVE  cur[w].id \in watch[w]
    BY DEF WatchIsOwn
  <2>1. w \in Workers /\ cur[w] # NoFeed
    BY WatcherIsLocked DEF IInv
  <2>2. cur[w].id \in Ids
    BY <2>1, CopyType DEF IInv
  <2>3. Original(cur[w].id)
    BY <2>2 DEF Inherited, Present, Original
  <2>. QED
    BY <2>3 DEF IInv, WatchInv
<1>. QED
  BY <1>1, Invariance, PTL

\* A mutex, a mark or the flag is always somebody's who is at work and will
\* release it (the deferred calls of SyncOne, the handlers and their
\* goroutines), whatever was refused or failed.
THEOREM NothingLeft == Spec => []NothingIsLeft
<1>1. IInv => NothingIsLeft
  <2> SUFFICES ASSUME IInv PROVE NothingIsLeft
    OBVIOUS
  <2>1. held \subseteq {mine[w] : w \in Workers}
    BY DEF IInv, LeftInv
  <2>2. syncing \subseteq
          {cur[w].id : w \in {v \in Workers : cur[v] # NoFeed}}
    BY DEF IInv, LeftInv, PcInv, Marked, Copying
  <2>3. inFlight # NoOne => pc[inFlight] # "idle"
    BY DEF IInv, TypeOK, PcInv
  <2>. QED
    BY <2>1, <2>2, <2>3 DEF NothingIsLeft
<1>. QED
  BY <1>1, Invariance, PTL

\* A request for all feeds runs beside no request for one (comments of both
\* handlers of handlers_api_feeds.go: syncAllInFlight is checked, the feed
\* marked and the flag checked again), unless that feed has been deleted or an
\* id inherited.
THEOREM RequestsRunAlone == Spec => []RunsAlone
<1>1. Init => MarkInv /\ AloneInv
  <2> SUFFICES ASSUME Init PROVE MarkInv /\ AloneInv
    OBVIOUS
  <2>1. \A w \in Requests : pc[w] = "idle"
    BY Names DEF Init, InitProcess
  <2>. QED
    BY <2>1 DEF MarkInv, AloneInv, Running
<1>2. /\ IInv
      /\ IInv'
      /\ MarkInv /\ AloneInv
      /\ [Next]_vars
      => MarkInv' /\ AloneInv'
  BY MarkStep, AloneStep DEF IInv
<1>3. IInv /\ AloneInv => RunsAlone
  <2> SUFFICES ASSUME IInv, AloneInv, NEW w \in Requests, NEW v \in Requests,
                      w # v, inFlight = w, Running(w), Running(v),
                      feeds[cur[v].id] # NoFeed, ~Inherited
               PROVE  FALSE
    BY DEF RunsAlone
  <2>1. pc[v] \in {"mark", "run", "fail", "done", "failed"}
    BY DEF IInv, PcInv, Running
  <2>2. v \in Workers /\ cur[v] # NoFeed
    BY <2>1 DEF IInv, PcInv, Copying, Workers
  <2>3. cur[v].id \in Ids
    BY <2>2, CopyType DEF IInv
  <2>4. Original(cur[v].id)
    BY <2>3 DEF Inherited, Present, Original
  <2>. QED
    BY <2>4 DEF AloneInv
<1>. QED
  BY <1>1, <1>2, <1>3, Invariance, PTL DEF Spec

=============================================================================
