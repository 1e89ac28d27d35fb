------------------------------ MODULE FeedSync ------------------------------
(***************************************************************************)
(* Synchronisation of feeds (feeds.Syncer), the handlers that start one,   *)
(* and the edits of feeds it races with.                                   *)
(*                                                                         *)
(* A synchronisation downloads a feed, outside any transaction and with a  *)
(* copy of its row, and commits the entries in a transaction that reads    *)
(* the row again.  The scheduled loop and a "sync all" request work        *)
(* through a list of such copies; a request for one feed takes the feed's  *)
(* mutex itself.  The Syncer keeps in memory which feeds are being         *)
(* synchronised and when an attempt last finished: a client watches the    *)
(* latter move past the baseline it was given.  After a change the caller  *)
(* has the routes announced again.                                         *)
(*                                                                         *)
(* There is one mode, and it includes every feed.  What is announced is    *)
(* what Reconcile last read (BgpManager models the rest).  A row's url     *)
(* stands for its URL, name, data and adapter, which the code compares     *)
(* alike; its hosts for allowed_hosts and restrict_hosts.                  *)
(*                                                                         *)
(* An operator that no action uses, placed before one of the same shape,   *)
(* is a wrong version of it: it is there to show which properties notice.  *)
(***************************************************************************)
EXTENDS Naturals

CONSTANTS
    Ids,       \* row ids
    Urls, Hosts, Entries,
    Loop,      \* the scheduled loop (syncLoop)
    Requests,  \* requests that synchronise feeds
    NoFeed,    \* no row, no error, no copy of a row
    NoMutex,
    NoOne,
    MaxFeeds,  \* bound: feeds ever created
    MaxEdits,  \* bound: requests that edit a feed or an adapter
    MaxStarts  \* bound: times the loop or a request starts to synchronise

ASSUME FeedSyncAssumption ==
    /\ Ids \subseteq Nat \ {0}
    /\ Loop \notin Requests
    /\ NoOne \notin Requests
    /\ MaxFeeds \in Nat /\ MaxEdits \in Nat /\ MaxStarts \in Nat

Workers == Requests \cup {Loop}
Mutexes == Workers  \* there is always one to spare

VARIABLES
    feeds,     \* the feeds table, with the entries of each feed
    mode,      \* mode_entries: the merge of the feeds
    replay,    \* what the recorded changes of each feed add up to
    announced, \* what Reconcile last read
    mutex,     \* Syncer.feedLocks: the mutex of a feed
    held,      \* the mutexes that are locked
    syncing,   \* Syncer.syncing
    attempted, \* Syncer.attempted: the serial of the feed that was (history)
    inFlight,  \* Server.syncAllInFlight, and whose it is
    pc,        \* where each worker is
    todo,      \* the copies it has still to synchronise
    cur,       \* the copy it is synchronising
    mine,      \* the mutex it holds or waits for
    edited,    \* the workers whose adapter was edited since they loaded it
    watch,     \* the feeds whose baseline, as its client knows it, stands
    edit,      \* where the request that edits is
    forget,    \* and the feed it has deleted
    created,   \* feeds created
    edits,     \* edits begun
    starts

tables == <<feeds, mode, replay>>
syncer == <<mutex, held, syncing, attempted, inFlight>>
worker == <<pc, todo, cur, mine, edited, watch>>
editor == <<edit, forget, created, edits>>
vars == <<tables, announced, syncer, worker, editor, starts>>

Config == [url : Urls, hosts : Hosts]
\* from is the configuration the entries were downloaded with (history), error
\* the one a last_error comes from; the serial tells feeds of one id apart.
Feed == [id : Ids, serial : 1..MaxFeeds, config : Config, enabled : BOOLEAN,
         synced : BOOLEAN, error : Config \cup {NoFeed},
         entries : SUBSET Entries, from : Config \cup {NoFeed}]
ASSUME FeedNames == NoFeed \notin Feed /\ NoMutex \notin Mutexes
Stages == {"idle", "try", "admit", "recheck", "check", "list", "next", "lock",
           "mark", "run", "fail", "done", "failed", "reconcile"}

NewFeed(i, n, c) ==
    [id |-> i, serial |-> n, config |-> c, enabled |-> TRUE, synced |-> FALSE,
     error |-> NoFeed, entries |-> {}, from |-> NoFeed]
Present(fs) == {i \in Ids : fs[i] # NoFeed}
Enabled(fs) == {i \in Present(fs) : fs[i].enabled}
Merge(fs) == UNION {fs[i].entries : i \in Enabled(fs)}

\* What a process that starts has in memory.
InitProcess ==
    /\ mutex = [i \in Ids |-> NoMutex]
    /\ held = {}
    /\ syncing = {}
    /\ attempted = [i \in Ids |-> 0]
    /\ inFlight = NoOne
    /\ pc = [w \in Workers |-> "idle"]
    /\ todo = [w \in Workers |-> {}]
    /\ cur = [w \in Workers |-> NoFeed]
    /\ mine = [w \in Workers |-> NoMutex]
    /\ edited = {}
    /\ watch = [w \in Workers |-> {}]
    /\ edit = "idle"
    /\ forget = 0

Init ==
    /\ created \in 0..MaxFeeds
    /\ \E c \in Config :
          feeds = [i \in Ids |-> IF i <= created THEN NewFeed(i, i, c)
                                 ELSE NoFeed]
    /\ mode = {}
    /\ replay = [i \in Ids |-> {}]
    /\ announced = {}
    /\ edits = 0
    /\ starts = 0
    /\ InitProcess

\* The process ends, whatever it was doing; the next one announces the routes
\* of the database when it starts.
Restart ==
    /\ mutex' = [i \in Ids |-> NoMutex]
    /\ held' = {}
    /\ syncing' = {}
    /\ attempted' = [i \in Ids |-> 0]
    /\ inFlight' = NoOne
    /\ pc' = [w \in Workers |-> "idle"]
    /\ todo' = [w \in Workers |-> {}]
    /\ cur' = [w \in Workers |-> NoFeed]
    /\ mine' = [w \in Workers |-> NoMutex]
    /\ edited' = {}
    /\ watch' = [w \in Workers |-> {}]
    /\ edit' = "idle"
    /\ forget' = 0
    /\ announced' = mode
    /\ UNCHANGED <<tables, created, edits, starts>>

----------------------------------------------------------------------------
(* One synchronisation *)

At(w, s) == pc[w] = s
Go(w, s) == pc' = [pc EXCEPT ![w] = s]
TablesStay == UNCHANGED <<tables, announced>>

\* The mutex of feed i, which is made when there is none.
MutexOf(i, m) ==
    IF mutex[i] # NoMutex THEN m = mutex[i]
    ELSE m \notin {mutex[j] : j \in Ids} \cup {mine[w] : w \in Workers}
MutexMade(i, m) == mutex' = [mutex EXCEPT ![i] = m]

\* SyncOne finds the mutex, and then locks it.
Take(w, f) ==
    /\ At(w, "next")
    /\ f \in todo[w]
    /\ todo' = [todo EXCEPT ![w] = @ \ {f}]
    /\ cur' = [cur EXCEPT ![w] = f]
    /\ \E m \in Mutexes : /\ MutexOf(f.id, m)
                          /\ MutexMade(f.id, m)
                          /\ mine' = [mine EXCEPT ![w] = m]
    /\ Go(w, "lock")
    /\ TablesStay
    /\ UNCHANGED <<held, syncing, attempted, inFlight, edited, watch, editor,
                   starts>>

Lock(w) ==
    /\ At(w, "lock")
    /\ mine[w] \notin held
    /\ held' = held \cup {mine[w]}
    /\ Go(w, "mark")
    /\ TablesStay
    /\ UNCHANGED <<mutex, syncing, attempted, inFlight, todo, cur, mine,
                   edited, watch, editor, starts>>

\* syncOne marks the feed and loads the adapter.
Mark(w) ==
    /\ At(w, "mark")
    /\ syncing' = syncing \cup {cur[w].id}
    /\ edited' = edited \ {w}
    /\ Go(w, "run")
    /\ TablesStay
    /\ UNCHANGED <<mutex, held, attempted, inFlight, todo, cur, mine, watch,
                   editor, starts>>

\* The row still has what the copy says, and the adapter its revision.
SameButHosts(f, w) ==
    /\ f # NoFeed
    /\ f.config.url = cur[w].config.url
    /\ f.enabled
    /\ w \notin edited
Unchanged(f, w) == SameButHosts(f, w) /\ f.config.hosts = cur[w].config.hosts

\* The first import of a feed is no change; any later difference is recorded.
Recordable(f) == f.synced \/ f.entries # {}
\* What a reader of the recorded changes takes the entries of feed f for, who
\* thought they were known, when they become es.
Replayed(f, known, es) ==
    IF ~f.synced THEN es
    ELSE IF Recordable(f) THEN (known \ (f.entries \ es)) \cup (es \ f.entries)
    ELSE known

MergeKept(fs) == mode \cup Merge(fs)
Rebuilt(fs) == Merge(fs)

\* es was downloaded.  A feed that changed meanwhile is left alone.
Commit(w) ==
    /\ At(w, "run")
    /\ \E es \in SUBSET Entries :
          LET i == cur[w].id
              f == feeds[i]
          IN  IF Unchanged(f, w)
              THEN /\ feeds' = [feeds EXCEPT ![i] =
                        [f EXCEPT !.entries = es, !.from = cur[w].config,
                                  !.synced = TRUE, !.error = NoFeed]]
                   /\ replay' = [replay EXCEPT ![i] = Replayed(f, @, es)]
                   /\ mode' = Rebuilt(feeds')
              ELSE UNCHANGED tables
    /\ Go(w, "done")
    /\ UNCHANGED <<announced, syncer, todo, cur, mine, edited, watch, editor,
                   starts>>

\* The adapter, the download or the transaction fails.
Fail(w) ==
    /\ At(w, "run")
    /\ Go(w, "fail")
    /\ TablesStay
    /\ UNCHANGED <<syncer, todo, cur, mine, edited, watch, editor, starts>>

\* The row that last_error is written to: the hosts are not compared.
GetsError(f, w) == SameButHosts(f, w)

PersistError(w) ==
    /\ At(w, "fail")
    /\ LET i == cur[w].id
       IN  feeds' = IF GetsError(feeds[i], w)
                    THEN [feeds EXCEPT ![i].error = cur[w].config] ELSE feeds
    /\ Go(w, "failed")
    /\ UNCHANGED <<mode, replay, announced, syncer, todo, cur, mine, edited,
                   watch, editor, starts>>

\* unmarkSyncing, and the mutex is unlocked.  A request for one feed that
\* failed has nothing to announce.
Next1(w) ==
    IF w = Loop \/ inFlight = w THEN "next"
    ELSE IF At(w, "failed") THEN "idle" ELSE "reconcile"
Finish(w) ==
    /\ pc[w] \in {"done", "failed"}
    /\ LET i == cur[w].id
       IN  /\ syncing' = syncing \ {i}
           /\ attempted' = IF i \in syncing
                           THEN [attempted EXCEPT ![i] = cur[w].serial]
                           ELSE attempted
           /\ watch' = [v \in Workers |->
                          IF i \in syncing \/ v = w THEN watch[v] \ {i}
                          ELSE watch[v]]
    /\ held' = held \ {mine[w]}
    /\ mine' = [mine EXCEPT ![w] = NoMutex]
    /\ cur' = [cur EXCEPT ![w] = NoFeed]
    /\ edited' = edited \ {w}
    /\ Go(w, Next1(w))
    /\ TablesStay
    /\ UNCHANGED <<mutex, inFlight, todo, editor, starts>>

----------------------------------------------------------------------------
(* The loop, and requests that synchronise *)

Start == starts < MaxStarts /\ starts' = starts + 1
StartLoop ==
    /\ At(Loop, "idle")
    /\ Go(Loop, "list")
    /\ Start
    /\ TablesStay
    /\ UNCHANGED <<syncer, todo, cur, mine, edited, watch, editor>>

\* SyncAll reads the enabled feeds, once.
List(w) ==
    /\ At(w, "list")
    /\ todo' = [todo EXCEPT ![w] = {feeds[i] : i \in Enabled(feeds)}]
    /\ Go(w, "next")
    /\ TablesStay
    /\ UNCHANGED <<syncer, cur, mine, edited, watch, editor, starts>>

ListDone(w) ==
    /\ At(w, "next")
    /\ todo[w] = {}
    /\ Go(w, "reconcile")
    /\ TablesStay
    /\ UNCHANGED <<syncer, todo, cur, mine, edited, watch, editor, starts>>

Reconcile(w) ==
    /\ At(w, "reconcile")
    /\ announced' = mode
    /\ inFlight' = IF inFlight = w THEN NoOne ELSE inFlight
    /\ watch' = [watch EXCEPT ![w] = {}]
    /\ Go(w, "idle")
    /\ UNCHANGED <<tables, mutex, held, syncing, attempted, todo, cur, mine,
                   edited, editor, starts>>

\* A request for one feed reads the row and the flag,
AskOne(w, i) ==
    /\ w \in Requests
    /\ At(w, "idle")
    /\ i \in Enabled(feeds)
    /\ inFlight = NoOne
    /\ cur' = [cur EXCEPT ![w] = feeds[i]]
    /\ Go(w, "try")
    /\ Start
    /\ TablesStay
    /\ UNCHANGED <<syncer, todo, mine, edited, watch, editor>>

Refused(w) ==
    /\ cur' = [cur EXCEPT ![w] = NoFeed]
    /\ mine' = [mine EXCEPT ![w] = NoMutex]
    /\ Go(w, "idle")

\* tries the mutex of the feed,
NeverBusy(m) == FALSE
Busy(m) == m \in held
TryLock(w) ==
    /\ At(w, "try")
    /\ \E m \in Mutexes :
          /\ MutexOf(cur[w].id, m)
          /\ MutexMade(cur[w].id, m)
          /\ IF Busy(m)
             THEN Refused(w) /\ UNCHANGED held
             ELSE /\ held' = held \cup {m}
                  /\ mine' = [mine EXCEPT ![w] = m]
                  /\ Go(w, "admit")
                  /\ UNCHANGED cur
    /\ TablesStay
    /\ UNCHANGED <<syncing, attempted, inFlight, todo, edited, watch, editor,
                   starts>>

\* marks the feed,
Admit(w) ==
    /\ At(w, "admit")
    /\ syncing' = syncing \cup {cur[w].id}
    /\ Go(w, "recheck")
    /\ TablesStay
    /\ UNCHANGED <<mutex, held, attempted, inFlight, todo, cur, mine, edited,
                   watch, editor, starts>>

\* and reads the flag again.  It answers with the feed's last attempt, and
\* leaves the rest to a goroutine.
FlagClear(w) == inFlight = NoOne
Recheck(w) ==
    /\ At(w, "recheck")
    /\ IF FlagClear(w)
       THEN /\ watch' = [watch EXCEPT ![w] = {cur[w].id}]
            /\ Go(w, "mark")
            /\ UNCHANGED <<held, syncing, cur, mine>>
       ELSE /\ syncing' = syncing \ {cur[w].id}
            /\ held' = held \ {mine[w]}
            /\ Refused(w)
            /\ UNCHANGED watch
    /\ TablesStay
    /\ UNCHANGED <<mutex, attempted, inFlight, todo, edited, editor, starts>>

\* A request for all feeds sets the flag,
AskAll(w) ==
    /\ w \in Requests
    /\ At(w, "idle")
    /\ inFlight = NoOne
    /\ inFlight' = w
    /\ Go(w, "check")
    /\ Start
    /\ TablesStay
    /\ UNCHANGED <<mutex, held, syncing, attempted, todo, cur, mine, edited,
                   watch, editor>>

\* and is refused while a feed is being synchronised.
FlagLeft(w) == inFlight
FlagReset(w) == NoOne
CheckAll(w) ==
    /\ At(w, "check")
    /\ IF syncing # {}
       THEN /\ inFlight' = FlagReset(w)
            /\ Go(w, "idle")
            /\ UNCHANGED watch
       ELSE /\ watch' = [watch EXCEPT ![w] = Present(feeds)]
            /\ Go(w, "list")
            /\ UNCHANGED inFlight
    /\ TablesStay
    /\ UNCHANGED <<mutex, held, syncing, attempted, todo, cur, mine, edited,
                   editor, starts>>

----------------------------------------------------------------------------
(* Requests that edit, one at a time *)

BeginEdit ==
    /\ edit = "idle"
    /\ edits < MaxEdits
    /\ edits' = edits + 1

\* SQLite gives a new row the id after the largest.
IsNewId(i) == /\ \A j \in Present(feeds) : j < i
              /\ i = 1 \/ i - 1 \in Present(feeds)
Create(i, c) ==
    /\ BeginEdit
    /\ created < MaxFeeds
    /\ IsNewId(i)
    /\ created' = created + 1
    /\ feeds' = [feeds EXCEPT ![i] = NewFeed(i, created', c)]
    /\ replay' = [replay EXCEPT ![i] = {}]
    /\ UNCHANGED <<mode, announced, syncer, worker, edit, forget, starts>>

\* UpdateFeed: a feed that is configured anew has nothing left of the old one.
Updated(f, c, on) ==
    IF c = f.config THEN [f EXCEPT !.enabled = on]
    ELSE [NewFeed(f.id, f.serial, c) EXCEPT !.enabled = on]
UpdatedInPlace(f, c, on) == [f EXCEPT !.enabled = on, !.config = c]
NewContent(f, c, on) == Updated(f, c, on)
Update(i, c, on) ==
    /\ BeginEdit
    /\ feeds[i] # NoFeed
    /\ <<feeds[i].config, feeds[i].enabled>> # <<c, on>>
    /\ feeds' = [feeds EXCEPT ![i] = NewContent(@, c, on)]
    /\ mode' = Rebuilt(feeds')
    /\ edit' = "reconcile"
    /\ UNCHANGED <<replay, announced, syncer, worker, forget, created, starts>>

Delete(i) ==
    /\ BeginEdit
    /\ feeds[i] # NoFeed
    /\ feeds' = [feeds EXCEPT ![i] = NoFeed]
    /\ mode' = Rebuilt(feeds')
    /\ edit' = "forget"
    /\ forget' = i
    /\ UNCHANGED <<replay, announced, syncer, worker, created, starts>>

\* The mutex stays while it is held.
Forget ==
    /\ edit = "forget"
    /\ mutex' = IF mutex[forget] \in held THEN mutex
                ELSE [mutex EXCEPT ![forget] = NoMutex]
    /\ syncing' = syncing \ {forget}
    /\ attempted' = [attempted EXCEPT ![forget] = 0]
    /\ edit' = "reconcile"
    /\ forget' = 0
    /\ TablesStay
    /\ UNCHANGED <<held, inFlight, worker, created, edits, starts>>

ReconcileEdit ==
    /\ edit = "reconcile"
    /\ edit' = "idle"
    /\ announced' = mode
    /\ UNCHANGED <<tables, syncer, worker, forget, created, edits, starts>>

\* An adapter is edited: its revision is another one.
EditAdapter ==
    /\ BeginEdit
    /\ edited' = {w \in Workers : pc[w] \in {"run", "fail"}}
    /\ TablesStay
    /\ UNCHANGED <<syncer, pc, todo, cur, mine, watch, edit, forget, created,
                   starts>>

----------------------------------------------------------------------------

Sync(w) ==
    \/ \E f \in todo[w] : Take(w, f)
    \/ Lock(w) \/ Mark(w) \/ Commit(w) \/ Fail(w) \/ PersistError(w)
    \/ Finish(w) \/ List(w) \/ ListDone(w) \/ Reconcile(w)
    \/ TryLock(w) \/ Admit(w) \/ Recheck(w) \/ CheckAll(w)
Edit ==
    \/ \E i \in Ids, c \in Config : Create(i, c)
    \/ \E i \in Ids, c \in Config, on \in BOOLEAN : Update(i, c, on)
    \/ \E i \in Ids : Delete(i)
    \/ EditAdapter
Next ==
    \/ StartLoop
    \/ \E w \in Workers : Sync(w)
    \/ \E w \in Requests, i \in Ids : AskOne(w, i)
    \/ \E w \in Requests : AskAll(w)
    \/ Edit \/ Forget \/ ReconcileEdit
    \/ Restart

Spec == Init /\ [][Next]_vars

----------------------------------------------------------------------------
(* Properties *)

TypeOK ==
    /\ feeds \in [Ids -> Feed \cup {NoFeed}]
    /\ mode \subseteq Entries
    /\ replay \in [Ids -> SUBSET Entries]
    /\ announced \subseteq Entries
    /\ mutex \in [Ids -> Mutexes \cup {NoMutex}]
    /\ held \subseteq Mutexes
    /\ syncing \subseteq Ids
    /\ attempted \in [Ids -> 0..MaxFeeds]
    /\ inFlight \in Requests \cup {NoOne}
    /\ pc \in [Workers -> Stages]
    /\ todo \in [Workers -> SUBSET Feed]
    /\ cur \in [Workers -> Feed \cup {NoFeed}]
    /\ mine \in [Workers -> Mutexes \cup {NoMutex}]
    /\ edited \subseteq Workers
    /\ watch \in [Workers -> SUBSET Ids]
    /\ edit \in {"idle", "forget", "reconcile"}
    /\ forget \in Ids \cup {0}
    /\ created \in 0..MaxFeeds
    /\ edits \in 0..MaxEdits
    /\ starts \in 0..MaxStarts

\* The entries of a feed were downloaded with its configuration, and what they
\* are can be told from the recorded changes alone: a synchronisation that an
\* edit overtook stores nothing.
EntriesAreCurrent ==
    \A i \in Present(feeds) :
        /\ feeds[i].entries # {} => feeds[i].from = feeds[i].config
        /\ feeds[i].synced => replay[i] = feeds[i].entries

\* The worker, or the request that edits, still has routes to announce.
WillReconcile ==
    \/ edit \in {"forget", "reconcile"}
    \/ \E w \in Workers :
          \/ w \in {Loop, inFlight} /\ pc[w] \notin {"idle", "check"}
          \/ pc[w] \in {"done", "reconcile"}

\* What is announced is the merge of the enabled feeds, unless the one who
\* changed that is about to have the routes announced again.
FeedsAreAnnounced == announced = Merge(feeds) \/ WillReconcile

\* A request for all feeds never runs beside a request for one (comments of
\* both handlers), unless that feed has been deleted or an id inherited: each
\* would report the other's outcome.
Inherited == \E i \in Present(feeds) : feeds[i].serial # i
Running(w) ==
    /\ w \in Requests
    /\ pc[w] \in {"list", "next", "lock", "mark", "run", "fail", "done", "failed"}
RunsAlone ==
    \A w, v \in Requests :
        w # v /\ inFlight = w /\ Running(w) /\ Running(v)
        => feeds[cur[v].id] = NoFeed \/ Inherited

\* What a client that asked for one feed watches moves when that feed is
\* done, and not before, as long as no feed has inherited an id.
WatchIsOwn ==
    \A w \in Requests :
        /\ Running(w)
        /\ inFlight # w
        /\ feeds[cur[w].id] # NoFeed
        /\ ~Inherited
        => cur[w].id \in watch[w]

\* last_error is of the configuration the feed has (persistSyncError: "a feed
\* edited mid-sync doesn't receive an error belonging to its old
\* configuration").
ErrorIsCurrent ==
    \A i \in Present(feeds) : feeds[i].error \in {NoFeed, feeds[i].config}

\* A feed inherits no attempt from one whose id it was given (ForgetFeed: "a
\* later feed reusing the SQLite rowid doesn't inherit live status or a
\* completion baseline").
AttemptIsOwn ==
    \A i \in Present(feeds) : attempted[i] \in {0, feeds[i].serial}

\* Whatever refuses or fails, nothing stays locked, marked or flagged by one
\* that is no longer at work: later requests would be refused for ever.
NothingIsLeft ==
    /\ held \subseteq {mine[w] : w \in Workers}
    /\ syncing \subseteq {cur[w].id : w \in {v \in Workers : cur[v] # NoFeed}}
    /\ inFlight # NoOne => pc[inFlight] # "idle"
=============================================================================
