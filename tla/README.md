# A TLA+ development of wdbgp

wdbgp downloads lists of network prefixes (feeds), sorts them into a catalog,
lets each user choose which of them they want, and announces the result over
BGP to that user's router. This directory models the parts of it in which
state, concurrency and failure meet, checks them with TLC and proves the
central facts about them with TLAPS. File and line references are to this
repository.

## The system

| Component | Source | State | Operations |
|---|---|---|---|
| Peer session | `internal/bgp/peer_*.go` | `conn`, `state`, `routes`, `lastSent`, `needsUpdate`, `hasIPv6Cap`, ... of one `Peer` | dial, accept, main loop, resync of routes, keepalives, `Stop` |
| Speaker | `internal/bgp/speaker.go` | the peer map, the listener | `Start`, `Stop`, `SetPeers`, `handleConnection` |
| Manager | `internal/bgp/manager.go` | the running speaker, peer configurations, `peerRoutes`: what each peer was last given | `Start`, `AddPeer`, `UpdatePeer`, `DeletePeer`, `ReloadPeers`, `Reconcile` |
| Wire format | `internal/bgp/wire_*.go`, `route.go` | none | encode and decode BGP messages |
| TCP MD5 | `internal/bgp/md5.go`, `nfqueue_md5.go`, `nftrule.go`, `rfc2385.go` | kernel keys, one netfilter table, one packet queue | install, reload, remove |
| Alerts | `internal/alerts/alerts.go`, `internal/store/user_prefix_alerts.go` | the queue of a dispatcher, the set of queued alerts, open episodes in the database | check, deliver with retries, mark delivered, recover |
| Retry, circuit breaker | `internal/retry/` | attempt counter; breaker state and counters | `Do`, `Execute` |
| Feeds | `internal/feeds/` | which feeds are being synchronised, which were attempted | `SyncDue`, `SyncOne`, `ForgetFeed`, download, parse |
| Prefix filter | `internal/prefixfilter/` | none | filter, aggregate, exclude prefixes |
| Settings | `internal/settings/` | value of each setting, its source, pending restarts | load, `Set`, reset, callbacks |
| Store | `internal/store/` | the SQLite database | migrations and backup; feeds, modes, catalog, users, community numbers, change log, configuration snapshots |
| Web server | `internal/web/` | sessions, rate limiter, "restart pending" | login, the JSON API |
| Main program | `cmd/wdbgp/main.go` | background loops | start, synchronise, purge, check alerts, shut down |
| Web user interface | `webgui/` | browser state | presents the API |

How they interact. The synchronisation loop of the main program downloads the
feeds that are due, stores them, rebuilds the catalog and calls
`Manager.Reconcile`; so does every API handler that changes a user, a mode or a
feed. The manager computes each user's desired routes from the store and gives
them to the user's `Peer` under `Manager.mu`. A `Peer` is also driven by its own
goroutines: the one that dials, one for each inbound connection, and a
keepalive sender. All of them write to one TCP connection; they synchronise by
three mutexes (`mu`, `writeMu`, `sendMu`) and two atomics. Alerts are produced
by a periodic check of the store and consumed by one delivering goroutine that
talks to an HTTP endpoint. Settings call back into the components they
configure.

What is hard: in the peer, the order of publication of its fields against
resyncs from another goroutine, sends that fail half-way, two sessions at once;
in the manager, a cache of what was announced that has to survive failures of
every step of an update; in the alerts, marks written after a slow delivery to
rows that have changed meanwhile; in the feeds, edits and deletions of what is
being downloaded; in the settings, writes to the database, to memory, to
subscribers and to the audit log that overlap; in the catalog, merged entries and
numbers that every path has to keep right; in the change log, a past that is
rebuilt from audit rows; in an import, writes whose order must not show; in the
route filter, arithmetic on prefixes that start alike.

What makes each component correct:

- Peer session: the router ends up with exactly the desired routes it can take;
  a wanted route is never taken away; two sessions never coexist; `Stop` ends
  every goroutine.
- Manager: the cache never claims more than was delivered; after any sequence of
  user changes, failing or not, one successful `Reconcile` makes the peers'
  routes those of the store.
- Alerts: without failures each episode is announced once, a recovery only after its
  drop, and nothing that should be announced is lost.
- Feeds: what is stored was downloaded for the feed as it is now; it is
  announced; a client is told the outcome of its own request; whatever is refused
  leaves nothing locked or marked.
- Catalog: what a user is announced is what the feeds offer now for what he
  picked; numbers are unique and do not change by themselves; previews are true.
- Change log: it says of each update what that was to this user then.
- Settings: memory and subscribers agree with the database, the audit log
  accounts for the filters, a change is announced, an accepted request is not
  refused half-way; a setting that needs a restart is reported until then.
- Import: its result does not depend on an order of writes, is what was
  confirmed, and reaches the BGP manager.
- Prefix filter: exactly the addresses that are selected, allowed, and neither
  excluded nor denied; what is said of them is true.
- Circuit breaker: no call while open, at most the allowed trials half-open.
- Opening the store: whatever is cut short, what was entered is served again or can
  be found.

## Modules

### PeerSession

One configured peer. Its variables are the fields of `bgp.Peer` under their own
names, plus

- `resync`: the `resyncRoutes` in progress, which is whoever holds `sendMu`;
- `pc`, `sock`, `timer`: for each handler (the dialing goroutine and the
  goroutines available to `handleConnection`) where it is, the connection it
  serves, and `mainLoop`'s copy of the hold time;
- `mgr`: where the one call made under `Manager.mu` is, and the connection it
  read before it released `p.mu`;
- `tcp`, `table`, `offers`: the connections and the routers at their other
  ends;
- `blame`: a history variable that no guard reads.

Actions correspond to the code between two points where another goroutine can
be noticed. `SetRoutes` is the first critical section of `AnnounceRoutes` and
`SendRoutes` the `resyncRoutes` it then calls; a resync is `BeginResync`, one
`WriteChunk` for each UPDATE, `GroupRoutes`, and `FinishResync` or `FailResync`,
and everything else may run in between. `Establish`, `RecordCapabilities`,
`ResetSent` and `SessionResync` are separate because each publishes something
the manager's call reads.

Abstractions. A write reaches the router's table at once (TCP keeps the order,
and a table dies with its connection). There is no clock: a read with a
deadline may fail at any time. A write on a healthy connection may fail before
its first byte ("clean", the peer did not drain its buffer for the deadline)
or after part of a message ("torn"), as `Faults` allows. `hasIPv6Cap` is read
once for all routes of a resync. An attribute set stands for next hop and
communities. The four-octet capability and the callback for received UPDATEs
change none of this and are left out.

`blame` names the three ways in which the books of a connection are spoilt by
the code as it is: a resync before `resetSent` ("early"), a clean failure of a
resync ("gap") and two sessions at once ("shared"). The properties that hold
exclude exactly those; each cause has an instance that shows what it does.

| Property | What it says |
|---|---|
| `NothingMissing` | once a session has settled, its router has every desired route it can take, with the current attributes |
| `NothingStale` | ... and no other route |
| `HeldIsRemembered` | outside a resync, `lastSent` contains what the router holds |
| `SettledIsExact` | both of these |
| `NoFlap` | a wanted route is never taken away while the connection lasts |
| `IPv6OnlyIfOffered` | no IPv6 route for a router that did not offer IPv6 |
| `ConnIsServed` | `p.conn` always has a live handler |
| `RetryDelivers` | if the session lasts and the manager is quiet, the router gets the desired set |
| `StopEndsAll` | `Stop` ends every goroutine of the peer |

Runs, with the instance of each:

| Run | Instance | Shows |
|---|---|---|
| `peer_dial` | two IPv6 prefixes, one attribute set, one prefix to a message, two connections, both faults, hold timer on, fair | a dialing peer across a reconnection, with every resync cut between and within messages: safety and liveness |
| `peer_both` | `ConnIsServed`: one prefix, two attribute sets, a dialing peer and one inbound connection, hold timer on | sessions that overlap or follow each other, and attributes that change |

Further instances are kept beside these, with a configuration each for
`tlc -config X.cfg MCPeerSession`: `peer_families` (both families, two attribute
sets, hold timer on or off, no liveness; it checks `IPv6OnlyIfOffered` and
`HeldIsRemembered` as well), and `peer_fresh_bug`,
`peer_retry_bug`, `peer_ipv6_bug`, `peer_duplicate_bug` and
`peer_redial_bug`, each of which ends in a violation that its first line
explains. `RetryDelivers` needs the hold timer: with `HoldChoices` `{FALSE}` a send
that fails is never repeated, and TLC finds it violated.

Why the bounds are enough: the defects a session can have need a route that
changes (two attribute sets), one that goes (one prefix suffices), a session
after another (two connections) and a second actor (the manager, or one inbound
handler); a group longer than a message takes two prefixes. The proofs then
remove the bounds.

Fairness. Each goroutine takes its enabled steps (weak fairness). Strong
fairness is assumed of the three places that wait for `sendMu`: Go's mutex
hands over to a waiter that has starved for a millisecond. A resync terminates
because every write has a deadline. A read is forced to end only if the hold
timer is on. Nothing is assumed of the manager, of routers, or of connections
coming in.

### PeerSession_proofs

For every set of prefixes, attributes, connections and accepting handlers,
both modes, any faults and any chunk size, TLAPS checks `Spec => []P` for
`TypeOK`, `ConnIsServed`, `HeldIsRemembered`, `NothingMissing`, `NothingStale`
and `SettledIsExact`, and `Spec => NoFlap`. The assumptions are those of the module:
the constants are disjoint where they must be and the chunk size is positive.

None of the properties is inductive. `IInv` adds: where handlers can be
(`PcInv`), that connections have one handler (`SockInv`), that tables exist
only on live connections (`TableInv`), that whatever `p.conn` or a caller of
`resyncRoutes` names was handed to the peer before (`NameInv`), that overlaps
and early resyncs are blamed (`ShareInv`, `EarlyInv`), who is inside
`resyncRoutes` (`CallInv`); and the three that carry the argument. `BooksInv`:
in each stage of a resync, what an unblamed router holds is covered by
`lastSent`, or by the new set and what is still to be withdrawn, or by what is
to be sent. `PlanInv`: what is sent is the plan for the routes it was made
from, and these are the current ones or another resync is owed. `SyncInv`:
what has been announced is in the table. The proof has one lemma for each
conjunct and in it one step for each action. TLC checks the same `IInv` on the
instances above.

IPv6 capability (`IPv6OnlyIfOffered`) is only model-checked, for a dialing peer.
Liveness is only model-checked.

### BgpManager

The manager, the part of the speaker it drives, and the web requests that
change users. The variables fall into three groups:

- the world outside: `store` (the users table), `want` (what the feeds, the
  selections and the filters of a user add up to), `setting` (the restart-only
  settings) and `pending` (`Server.restartPending`);
- the manager and its speaker: `running` (`Manager.speaker # nil`), `snap` (the
  settings read by `startLocked`), `configs` (`peerConfigs`), `cache`
  (`peerRoutes`), `peers` (`Speaker.peers`), `applied` (`Speaker.peerConfigs`)
  and `md5` (the listener's keys, in the kernel);
- who is doing what: `holder` (`Manager.mu`, when it is kept across steps),
  `loop` (`reconcileLocked`'s local variables), and `pc` and `req` for each
  goroutine.

`shared` is a history variable of session keys that two tracked users have had
in common, which no guard reads; it delimits what the properties promise.

A request is what the handler does, cut where another goroutine can come in:
validation (`Begin...`), the transaction (`Commit...`), for an update the read
back (`ReadUser`), the manager's call, and `Reconcile`. What it carries in `req`
is what the handler has in local variables, so it may be old when the manager
sees it. A call of the manager that keeps `Manager.mu` throughout is one action:
`AddPeer`, `UpdateUntracked` and `UpdateTracked` (the two halves of
`UpdatePeer`), `DeletePeer`. `reconcileLocked` is one step to read
the store, one per peer (`SkipPeer`, `AnnouncePeer`) and one to end, since
requests go on writing the store meanwhile; `ReloadPeers` and `Start` are
`LoadPeers`, `LoadRoutes`, the same loop, and `EndStart`, with the store read
twice as in the code.

Failures, up to `MaxFaults` in a behaviour: a query, saving the filters of a new
user, a key the kernel refuses half-way through `SetPeers`, a listener that
cannot be opened, and an announcement that is not delivered. Refusals that
follow from the state (two passwords for one address, an IPv6 peer without an
IPv6 address, a peer that is tracked already) are not counted.

Abstractions. A peer is its configuration and the routes it was last told to
announce; what it does with them is module `PeerSession`, where `AnnounceRoutes`
is `SetRoutes` and the resync. Routes stand for sets of prefixes with their
attributes. Of a user's row the model keeps what the manager reads. Of a
session's configuration it keeps password and remote port (`dials`); the rest
changes only with the settings of a reload, which restarts every session.
`BeginRoutes` and `CommitRoutes` stand for every handler, and for the
synchronisation of feeds, that changes what users get and then calls
`Reconcile`. The packet queue that serves dynamic peers' passwords is left out.

| Property | What it says |
|---|---|
| `CacheDelivered` | a non-empty entry of `peerRoutes` is what that session was told to announce: skipping it is safe |
| `ReconcileDelivers` | a reconciliation without error has brought every enabled tracked user the routes that the store desired |
| `PasswordEnforced` | while a peer with a password runs, the listener demands a password of its address |
| `FailedUpdateChangesNothing` | an update that fails leaves the tracked users and the sessions alone |
| `OthersKeepTheirSession` | a call about one user does not restart or change another one's session |
| `Agreement` | with no failure and no request under way, the tracked users are the enabled users of the store |
| `StaysUp` | without failures, no reload is refused because of what the requests let in |
| `OnePasswordPerAddress` | users of one address agree on its password |
| `PendingShown` | a restart-only setting that is not in effect is flagged |
| `EveryCallEnds` | every request ends, and so does the start of the program |

The first five hold whatever requests do at the same time; `StaysUp`,
`OnePasswordPerAddress` and `PendingShown` hold when requests come one after the
other, and so does `Agreement` if no address is an IPv6 one (a peer that the
settings of a reload leave out is in the store and not tracked). The `_bug`
instances show that they do not when two overlap.

| Run | Instance | Shows |
|---|---|---|
| `mgr_serial` | two users, six rows (an address with one or another password and two AS numbers, a dialed peer at a second address, the same one disabled, 0.0.0.0), two sets of settings, three requests, reloads, two failures | each operation and each of its failures, one after another |
| `mgr_concurrent` | two requests at a time and reloads, users that move between two peers, a failure, fair | stale rows and refused calls; every call ends |

Further instances, for `tlc -config X.cfg MCBgpManager`:

| Instance | Shows |
|---|---|
| `mgr_withdraw_bug` | violation: the rollback of a refused update leaves an empty entry for a session that announces, and a later reconcile withdraws nothing; with `NoSharedSession` as the invariant, that two tracked users come to share one session |
| `mgr_stale_key_bug` | violation: a password that is removed stays on the listener |
| `mgr_stale_update_bug` | violation: an overtaken update re-adds a disabled user |
| `mgr_conflict_bug` | violation: two requests at a time put two passwords on one address |
| `mgr_pending_bug` | violation: a reload clears the flag of a setting it did not read |

Why the bounds are enough: what one call does to another user, or to the key of
an address the two share, shows with two users. The errors of
the books take an update that moves a user (two keys), one that fails, and a
request that follows: three requests (`mgr_serial`). One route suffices, because
all that matters of a set is whether it equals another and whether it is empty.
The proofs remove these bounds for all safety properties but `Agreement`.

Fairness. A request that has begun goes on, and so does whoever is inside the
manager. Strong fairness is assumed because a goroutine that waits for
`Manager.mu` may find it taken again and again; Go's mutex hands over to a
waiter that has starved for a millisecond. The loop ends because it visits each
tracked user once and an announcement has write deadlines. Nothing is assumed
of new requests, nor of `Stop`.

### BgpManager_proofs

For any number of users, addresses, passwords, routes, requests and failures,
TLAPS checks `Spec => []P` for `TypeOK`, `PasswordEnforced`, `CacheDelivered` and
`ReconcileDelivers`, and `Spec => P` for the action properties
`FailedUpdateChangesNothing` and `OthersKeepTheirSession`. It assumes
`ManagerAssumption`, the disjointness and subset facts about the constants.

`TypeOK` is inductive with `ReqInv` (a request under way has a record, and a
row where it needs one). `PasswordEnforced` is inductive with that alone: the
argument is `SetPeers`, where the addresses of the new peers keep their key
when those of the old ones are cleared (`KeysAppliedFacts`, `KeysClearedFacts`,
`PeersAreKeyed`). The other four need `IInv`, which adds

- `DupInv`: keys that two tracked users have are in `shared`;
- `PeersInv`: every tracked user outside `shared` has a session with the
  password and the port its row asks for, so a `SetPeers` that does not concern
  it keeps it;
- `HeldInv`: a non-empty cache entry outside `shared` is in the session;
- `BusyInv`: whoever is inside the manager has a running speaker;
- `LoopInv`: what is left of the loop is the end of `configs`, and the users
  before it have been delivered what they should get, unless an announcement
  failed. `ReconcileDelivers` is `LoopInv` when nothing is left.

The proof goes over the actions in groups: those that leave the manager alone
(`OutsideInv`), those that set peers (`TrackSessions`, `UpdateSessions`,
`DeleteSessions`, `LoadSessions`, all from the facts about `PeersSet`), and the
steps of the loop (`SkipLoop`, `AnnounceLoop`). TLC checks `IInv` on the instances
of `mgr_serial` and `mgr_concurrent` as well.

Under the hypothesis `~Overlap`, that requests come one after another, it also checks
`Spec => []P` for `PendingShown`, `StaysUp` and `OnePasswordPerAddress`. The
hypothesis is needed: `mgr_pending_bug` and `mgr_conflict_bug` are what happens
without it. The invariant `OneAtATime` adds to `IInv`

- `SerialInv`: one request runs at a time, after the start;
- `LoadedInv` and `NotedInv`: from the moment a start reads the settings to the
  moment a reload clears the flag no setting changes; a change that is not in effect
  is flagged, or its request is about to flag it. `PendingShown` follows;
- `AllowedInv`: what `validatePeerUniqueness` found still holds when the transaction
  commits (`Fits`), from which each address keeps one password;
- `StartInv`: while nothing has failed, `SetPeers` has accepted what was loaded,
  since users who agree on passwords do not conflict (`LoadedAgree`), and the
  loop of a start finds a session for each of them. `StaysUp` follows.

TLC checks `OneAtATime` on the instance of `mgr_serial` (3,327,680 states).

`Agreement` and the liveness property `EveryCallEnds` are only model-checked; the
first is an invariant of the stages of every handler at once, and needs that no
address is an IPv6 one.

### PrefixAlerts

The alerts about users who lose their prefixes: `alerts.Checker` and the
episodes it keeps in the store. The variables:

- `users`, `url`: the users, enabled or not, and whether there is a webhook;
- `rows`: `user_prefix_alert_state`, one row for each user that was measured
  (its `recovery_*` columns are the field `recovery`, a whole notification or
  `NoNews`);
- `stage`, `todo`, `hasUrl`, `threshold`, `user`, `count`, `seen`, `found`: where
  `Run` is, and its local variables and those of `EvaluateUserPrefixAlert`;
- `delivering`, `queued`: the fields under `deliveringMu`;
- `dpc`, `batch`, `cur`, `late`: for each goroutine that may run `deliverLoop`
  where it is, what it has left, and what it is posting;
- `told`: what the webhook was last told about each user; `low` is a history
  variable.

A tick is `StartRun`, for each user `Measure` (the count and the row are read)
and one of the outcomes of `EvaluateUserPrefixAlert` (`FirstMeasured`,
`StaysNormal`, `DropBegins`, `StaysDown`, `RecoversUntold`, `Recovers`, or
`NotEvaluated` when the database fails), `LookUpPending` where nothing new was
found, and `HandOver`. A goroutine goes through `BeginPass`, for each
notification `Check`, a post (`Post`, `AnswerLost`, `PostFails`) and `Mark`, and
`EndPass` or `EndDisabled`. Any of these may come between any two steps of the
tick, and so may changes of users and of the webhook, and a restart, which
leaves the database only.

Abstractions. Time is what the recorded timestamps tell apart. Two of them are
never equal, and a user is measured at most once during one post: three attempts
with their delays take less than a minute, and ticks are five minutes apart
(`prefixAlertInterval`). `late` says that it was measured. The two queries of
`LookUpPending` are one step, since only marks come between them in a way that
matters. Counts are those of both families together, as the code adds them; the
current count, which a notification also carries, is left out. Retries of one
post differ only in how often the webhook hears of it.

| Property | What it says |
|---|---|
| `FollowsFeed` | what the webhook is told implements `AlertFeed`: drops in order, and recoveries only from the drop last told |
| `QueueIsServed` | one goroutine delivers at a time, and nothing is queued when none does |
| `ToldOnce` | without failures nothing is told twice, although each tick finds it pending again |
| `NoFlapping` | a drop does not end at a count as low as the one it began with |
| `DropsAreTold`, `RecoveriesAreTold`, together `PendingIsTold` | what lasts is told in the end, across failures, restarts and a webhook that is switched off and on |
| `ToldDropsEnd` | a webhook that was told of a drop is told of the recovery |

| Run | Instance | Shows |
|---|---|---|
| `alerts` | one user, who may be deleted and created again, two counts, two thresholds, three timestamps, one failure, two goroutines, fair | `QueueIsServed`, `FollowsFeed`, `ToldOnce`, `PendingIsTold` |

`alerts_untold_bug.cfg` is a further instance, with one user and no failure, in
which `ToldDropsEnd` is violated: a tick that ends an episode while its drop is
being posted takes it for one that was never announced, and never tells the
recovery. `NoFlapping` is proved.

Three timestamps are a drop, its recovery and another drop, the shortest history
in which a late delivery can be taken for another episode's; a row is read and
written with one user at a time, so users meet only in the queue and the batch,
for which the proofs are about any number of them. The safety part of the
invariant below was also checked for two users and two timestamps.

Fairness. `Run` is called by a ticker and never blocks (weak fairness of its
steps); a goroutine goes on because a post has a timeout (weak fairness of each
goroutine's). Nothing is assumed of administrators or of failures, except
that there are at most `MaxFaults`.

### AlertFeed

The abstract specification: what the recipient of the alerts may rely on. Its
variable is `told`, its steps `TellDrop` and `TellRecovery`. `PrefixAlerts`
implements it: `PrefixAlerts` has `INSTANCE AlertFeed` with the abstract `told`
as its own, and `FollowsFeed` is the abstract specification.

### PrefixAlerts_proofs

For any number of users, goroutines, timestamps and failures, any counts and
thresholds, TLAPS checks `Spec => []TypeOK`, `Spec => []QueueIsServed`, and
`Spec => P` for `FollowsFeed`, `ToldOnce` and `NoFlapping`. It assumes
`AlertsAssumption` (numbers are natural, percentages within 1..99) and
`NamesAssumption`.

`TypeOK` and `QueueIsServed` are inductive. Whether a post makes sense depends on
what happened since its notification was found, so `EpisodeInv` relates all the
places a notification passes through: `SeenInv` and `LateInv` (the row a tick
read is the row it writes, up to marks), `KnownInv` (a timestamp identifies a
notification, wherever it waits), `RowInv` (what the row says was delivered is
what was told last), `CurInv` (what is being posted is what the row has pending,
or one measurement has gone by), `ToldInv` and `PostInv` (what is about to be
told may follow what was). `FeedStep` is then immediate. `RowCases` gives the six
things an evaluation can do to a row, and the proofs of the conjuncts go over
those, marks, and the rest. `LowInv` carries `NoFlapping`, and `OnceInv`
`ToldOnce`: without failures, what is pending was not told or is about to be
marked. TLC checks the whole of `IInv` on the instance of `alerts`.

`DropsAreTold` and `RecoveriesAreTold`, being liveness, are only model-checked.

### FeedSync

The synchronisation of feeds: `feeds.Syncer`, the loop of the main program, the
two requests that start one, and the edits they race with. The variables:

- `feeds`, `mode`, `replay`: the feeds with their entries, `mode_entries`, and
  what a reader of the recorded changes of each feed makes of its entries;
- `announced`: what `Reconcile` last read;
- `mutex`, `held`, `syncing`, `attempted`: `Syncer.feedLocks` and which of those
  mutexes are locked, and the two maps of the `Syncer`; `inFlight`:
  `Server.syncAllInFlight`;
- `pc`, `todo`, `cur`, `mine`, `edited`: for the loop and each request where it
  is, the copies of rows it has left, the copy and the mutex it works with, and
  whether an adapter it has loaded was edited since;
- `watch`: the feeds whose baseline a client was given and which were not
  attempted since; `edit`, `forget`: where the request that edits is.

A synchronisation is `Take` (the copy of the row, the mutex from the map), `Lock`,
`Mark`, the download and its transaction (`Commit`, which stores nothing if the
row or the adapter has changed, or `Fail` and `PersistError`), and `Finish`. The
loop and a request for all feeds put `List` before and `Reconcile` behind;
`AskAll` and `CheckAll`, and `AskOne`, `TryLock`, `Admit` and `Recheck`, are the
admission of the two kinds of requests, with one step for each mutex or flag they
touch. `Create`, `Update`, `Delete` with `Forget`, `ReconcileEdit` and
`EditAdapter` are the requests that edit. `Restart` ends the process anywhere.

Abstractions. One mode includes every feed (`Catalog` has the modes). A `url`
stands for everything of a row that invalidates a download, `hosts` for the two
columns that only the commit compares. Which feeds are due is left to the loop's
choice of a moment. A row id is given again after a deletion, as SQLite does
without `AUTOINCREMENT`; `serial` tells such feeds apart and no guard reads it.

| Property | What it says |
|---|---|
| `EntriesAreCurrent` | entries were downloaded with the configuration the feed has, and follow from the recorded changes |
| `FeedsAreAnnounced` | what is announced is the merge of the feeds, unless somebody is about to reconcile |
| `WatchIsOwn` | what a client watches does not move before its own synchronisation ends |
| `NothingIsLeft` | nothing stays locked, marked or flagged by one who is not at work |
| `RunsAlone` | a request for all feeds does not run beside a request for one |

| Configuration | Instance | Shows |
|---|---|---|
| `feeds` | one row id, two feeds one after the other, two URLs, one entry, the loop and two requests, two edits, three starts | the first four; `RunsAlone` is proved |
| `feed_error_bug` | hosts that change, one request | violation: an error of a download with the old hosts is written to the feed with the new ones |
| `feed_rowid_bug` | the same | violation: a feed inherits the attempt of the one whose id it was given |

Why the bounds are enough: a download meets one edit, or a deletion and a
creation, which are two edits; the admission is a matter of two requests, and the
loop makes a third; one row id suffices for its reuse and for a mutex that is
forgotten while it is waited for.

### FeedSync_proofs

For any number of row ids, configurations, entries and requests and every bound,
TLAPS checks `Spec => []P` for `TypeOK`, `EntriesAreCurrent`, `FeedsAreAnnounced`,
`WatchIsOwn`, `NothingIsLeft` and `RunsAlone`. It assumes `FeedSyncAssumption` (row ids are
positive numbers, the loop is no request) and `FeedNames` (the constants that
stand for nothing are no feed and no mutex).

None of these is inductive but the first. The invariant `IInv` adds

- `PcInv`: in which stages a worker has a copy and a mutex, and that whoever goes
  through a list on behalf of a request is the one in flight;
- `LockInv`: past `Lock` the mutex is locked, and no two workers have one mutex;
- `LeftInv`: who will unlock and unmark, from which `NothingIsLeft` follows;
- `IdInv`: no copy has an id that was not given yet, so that a feed with a new id
  meets nobody who synchronises it;
- `MutexInv`: all who synchronise a feed that is the first of its id
  (`Original`) have the mutex that the map has for it. Nobody forgets that mutex
  without having deleted the feed;
- `WatchInv`: `WatchIsOwn` for one such feed at a time. Only `Finish` of another
  worker with the same feed could break it, and by `MutexInv` and `LockInv` there
  is none;
- `ModeInv`: `mode_entries` is the merge of the feeds, so that the steps that
  announce it (`Reconcile`, `ReconcileEdit`, `Restart`) restore
  `FeedsAreAnnounced`; `ModeStep` says which steps change the merge
  (`Rewrites`), and `AnnouncerStays` that in a synchronisation nobody stops
  being about to announce without doing so.

`CommitRows`, `ErrorRows`, `SyncRows`, `CreateRow` and `UpdateRow` say once what the
steps do to the table; the proofs of the conjuncts cite them. TLC checks `IInv` on
the instance of `feeds`.

`RunsAlone` rests on two more. `MarkInv`: a request for one feed has it in `syncing`
from `Admit` to its end (`MarkStays`: by `MutexInv` nobody else takes the mark off).
`AloneInv` is `RunsAlone` for a feed that is the first of its id: the request for
all goes on from `CheckAll` only if nothing is marked (`AloneBegins`), and the
request for one from `Recheck` only if the flag is clear (`AloneOwn`), so that
whichever comes second gives way. TLC checks both on the instance of `feeds`
(3,218,643 states).

### Catalog

Modes with their feeds, merged entries and community numbers; every action is a
transaction. The variables are the tables: `modeIs` (`catalog_modes`), `feedRow`
(`feeds` with their entries), `link` (`catalog_mode_feeds`), `merged`
(`catalog_mode_entries`), `number` (`catalog_communities`), `person` (`users`),
`picked` (the selections); and `shown`, the preview of a reset in front of an
administrator.

Modes: `CreateMode`, `UpdateMode`, `SetModeFeeds`, `SaveModeWithFeeds`,
`DeleteMode`. Feeds: `CreateFeed`, `SetFeed`, `SyncFeed`, `EnableFeed`,
`DeleteFeed`. Users: `SaveOwn`, `SaveFor`, `EditUser`, `SwitchMode`. Numbers:
`GenerateMode`, `GenerateAll`, `SetNumbers`, `ShowPreview`, `ResetNumbers`,
`Export`. Each includes the rebuild of the merge and the clean-up of numbers and
selections that the transaction of the code makes. `Generated` is the
allocation: categories on multiples of `Gap`, services behind them, each moved up
to the first number that is free.

Abstractions. An entry is a set of addresses. A category or service is announced
with its number; how numbers are written into BGP communities is not modelled.

| Property | What it says |
|---|---|
| `DesiredIsCurrent` | what is announced, computed from `merged`, is what feeds, links, modes and selections say now |
| `NumbersAreUnique` | no two categories or services of a mode share a number |
| `NumbersAreStable` | a number changes only by an administrator's request for it; `NumbersAreSound` is both |
| `ResetIsReviewed` | a reset does what its preview said |
| `PreviewIsTrue` | what the preview of a save says is what the save does to announcements |
| `ExportIsComplete`, `EstimateIsReset`, `GoneModesAreEmpty`, `MatrixIsCleared` | exports have every number, estimates are those of a reset, deleted modes leave nothing, the matrix can be completed |

| Configuration | Instance | Shows |
|---|---|---|
| `catalog` | two modes, one of them built in, two feeds, three services in two categories, one user, `Gap` 2, three changes | the first five |
| `catalog_more` | the same | the others, and `CatalogTypeOK` |

Why the bounds are enough: behaviours begin with any of the feeds configured,
synchronised and linked to the built-in mode, so three changes are left for what
matters: a selection or numbers, an edit of a feed, a link or a mode, and what
follows it. `Gap` 2 makes a category of two services overflow into the next one's part
of the grid, which with 10000 no test could.

### Catalog_proofs

For any modes, feeds, services, categories, users and selections and every bound,
TLAPS checks `CatalogSpec => []P` for `DesiredIsCurrent` and `GoneModesAreEmpty`,
and `CatalogSpec => P` for `ResetIsReviewed`, `PreviewIsTrue` and `NumbersAreSound`.
It assumes `CatalogAssumption` (the built-in modes are modes, one of them the one
that users of a deleted mode go to; numbers are positive) and `CatalogData` (what a
feed offers is a set of addresses for each service; categories and services come in
lists).

The invariant is `CatalogInv`: `CatalogShape`, the columns of the tables;
`MergeInv`, that `merged` is for every mode what its feeds and links say, which each
of the transactions has to restore by rebuilding exactly the modes it touches;
`BuiltInInv`, that there is always a mode to go to; and `GoneModesAreEmpty`.
`DesiredIsCurrent` then compares two ways to compute one user's routes.
`PreviewIsTrue` is about pairs of states: what the preview computes from
the old state with one mode or one user exchanged is what the save leaves.
`ResetIsReviewed` follows from the digest alone.

`NumbersAreSound` has an invariant of its own, `NumbersInv`: the numbers of every
mode are a `Numbering`, in which no two that are given are the same. `FreeNumber` is
why a free one is always found: fewer numbers are held than are tried (`FirstFree`
looks at one more than there are keys). The loops over categories, services and the
entries of a request are recursive functions along a list; `AlongList` carries a
statement from one index to the next, and `GeneratedKeeps` and `BatchKeeps` say that
each loop leaves a `Numbering` and keeps (`Kept`) what it was not asked to change.
`NumbersStep` goes through the transactions: all but `ResetNumbers`, `DeleteMode` and
a request that names the key leave every number as it is.

### ChangeLog

The change log of a user, which nobody writes: it is computed from the audit rows
of what he or an administrator changed, the recorded updates of feeds, and his
present state. The variables are the tables (`audit`, `lastId`,
`completeSince`, `syncs`, `account`, `sel`, `logMode`, `feed`, `seen`), the
`clock` in seconds, and the note about new services in front of him (`note`). Of
the records, `matters`, `of` and `n` are history: what an update was to the user
at that moment, whose it was and the order of commits.

Writing: `SaveSelection`, `SetMode`, `CreateMode`, `EnableMode`, `DeleteMode`,
`Sync`, `CreateFeed`, `DropFeed`, `EnableFeed`, `LinkMode`, `CreateUser`,
`DeleteUser`, `Purge`, `ReadNote`, `Ack`. Reading (`ReadLog`) is the operator
`Entries`, which follows `UserChangeLog`: the newest rows as far as they are
complete, the state at a time as the "before" of the first change after it, the
candidates, and the order of entries.

Abstractions. One user id and one feed; what the audit log says of other things
only takes ids. Times are taken while the write lock is held.

`LogIsTrue` says that the log lists of every update what it was to this user
then, in the order of commits, and nothing of another user who had the id;
`AckedWasShown` that acknowledging a note hides nothing the note did not show.

### Records_proofs: ChangeLog

For any modes, categories and services and every bound, TLAPS checks
`LogSpec => []LogIsTrue` and `LogSpec => []AckedWasShown`. It assumes
`LogAssumption` (modes are numbered and finitely many, services have a category, the
limits are natural numbers and the reader takes at least one row).

`LogIsTrue` speaks of what the reader makes of the newest rows; the invariant `LogInv`
says what all of them are worth. `RowsInOrder`, `SyncsInOrder` and
`PlacesInOrder`: ids, times and transactions of audit rows and updates agree on one
order, although several have the same second. `Owned`: `floor` parts what is of
this user from what is of whoever had the id before. `TruthInv`: for every update
that the audit log reaches back to (`completeSince`), the first row after it, or the
present state where there is none, says in which mode the user was and what he
had picked, or that it was too much to record.

Every action is one of a few kinds of transactions on these tables, with a
lemma for each: it writes the rows about what it changes (`RowsAreRecorded`, by way of
`Tells` and `StillRemembered`), records an update (`UpdateIsRecorded`), lets the
updates of a deleted feed go (`UpdatesOutliveTheFeed`), gives a user a new id or
an old one (`UsersStartAnew`), deletes one (`NoUserNoTale`), purges
(`PurgesKeepHistory`), or concerns none of it (`OthersKeepHistory`). `LogTells`
derives `LogIsTrue`: what is read is the part of the rows behind some point
(`ReadFacts`), an update behind it is told by the same row as by all
(`StatesFound`), each is listed once (`OneUpdate`) and in order
(`EntriesInOrder`). `SeenInv` adds for `AckedWasShown` that the note in front of a user
reaches no further than what a note of that mode has shown.

`DropFeed` writes the rows of several modes in one transaction in the order of their
ids; `Ascending` is that order without recursion. TLC checks `LogInv` on the log's
part of the instance of `records` (1,485,096 states).

### Settings

Settings that are changed while the program runs. The variables: `row`
(`app_settings`), `cached` and `heard` (what the program reads, and what
subscribers were told), `mu` (`globalFilterMu`), for each request or import
where it is and its local variables (`at`, `body`, `left`, `next`, `before`,
`shown`, `closures`), `audited` (the audit rows of the filters), `announced` (the
filters of the last reconciliation), and `unsaid` and `half`, history.

A request is `Put` (validation), `Enter` (the lock), for each plain setting
`SetRow` or `ResetRow`, `CacheValue` and `Tell`, then `SaveFilters` in one
transaction, `CommitCached` and `CommitTold` for each filter, `Leave`, and
`ReconcileFilters` or `ReconcileFails`. `SaveFails` and `SaveRefused` end it
half-way. An import, which does not take the lock, is `Preview`, `Found`,
`ApplyTables` or `Stale`, `ApplyFilters` or `SkipFilters`, and goes on like a
request. `Restart` may come anywhere.

Abstractions. A value is valid or not; its parsing is left out, and so are
settings without a row, which cannot be changed. Restart-only settings and their
flag are in `BgpManager`.

| Property | What it says |
|---|---|
| `RecordsAgree` | when nothing is under way, memory and subscribers agree with the database (filters aside if there was an import), and without imports the audit rows lead to the filters in force, change by change |
| `FiltersAreAnnounced` | a change of filters is announced unless the reconciliation said that it failed |
| `AcceptedIsApplied` | what was validated is not refused half-way but by a failure of the database |

### Records_proofs: Settings

For any settings, filters, values, requests and imports, any number of each at a time,
and every bound, TLAPS checks `SettingsSpec => []RecordsAgree`,
`SettingsSpec => []FiltersAreAnnounced` and, under the hypothesis
`NoOverriddenReset`, `SettingsSpec => []AcceptedIsApplied`. It assumes
`SettingsAssumption` (requests, imports and nobody are different, `Unset` and `Invalid`
are no values, the filters are settings that no environment variable
overrides, requests ask for settings). The hypothesis
says that no request resets a setting whose environment variable is set;
`settings_reset_bug` is what happens without it, and it is the only such case.

`RecordsAgree` speaks of moments at which nothing is under way, so nothing of it is
inductive. `SettingsInv` says what holds in between:

- `LocalsInv`: what a request has in hand at each stage, as the validation left it;
- `MutexInv`: a request between `Enter` and `Leave` has `globalFilterMu`;
- `AgreeInv`: if a cached value differs from the database, or a subscriber from the
  cached value, a request is about to set it or to tell him, and what it is going
  to say is what the database has. Without the lock two requests would both be
  about to, with different values;
- `AnnounceInv`: a change of the filters has somebody who will reconcile;
- `AuditInv`: the audit rows of the filters form a chain to the present value, and the
  request that will write the next one has read that value. It holds until the first
  import, which reads the filters without the lock (`settings_import_bug`).

TLC checks `SettingsInv` on the settings' part of the instance of `records` (489,650
states).

### StoreOpen

`store.Open`, up to the first request that is served, with programs of several
versions started one after the other. The variables: `db` (what SQLite shows, file
and write-ahead log) and `main` (the file alone); `opened` (the open database
after its file was renamed); `saved` (`.incompatible-vN`), `backups` (by
modification time); `bin` and `env` (version and environment of the program), `stage`
(where it is), `picked` (the backup being restored). `script` is the way the one
rebuild among the migrations is written: `blind` as migration 20, `script` as 31, 32
and 34, `loop` as 33 and `afresh` as 39.

`Start` decides between degraded mode, a restore, a backup and the migrations.
`tryRestore` is `NoBackupFound` or `SetAside` (the rename), `CreateFile`,
`CopyPart`, `CopyRest` and `Reopen`, or `RestoreFails`; the backup is `BeginBackup`
(checkpoint and new file) and `CopyBackup`; a migration is `ApplyMigration`, or, if
it rebuilds, one step for each statement that commits on its own: `BeginBlind`,
`BeginCopy`, `BeginAfresh`, `FinishRename` and `AlreadyRebuilt` (the detection of
where an earlier attempt stopped, and `CREATE TABLE`),
`InsertAll` or `InsertRow` and `InsertedRows`, `DropTable`, `RenameTable`,
`RecordMigration`. `Serve`, `EnterRow`, `Checkpoint` and `Stop` are the life of the
program, `OpenFails` an error return, `Crash` the end of the process anywhere.

Abstractions. One table, one rebuild, rows that are only added. A process ends, a
machine does not: what is committed stays. Backups have distinct names (the code
gives them the second). What is stripped from a backup can be downloaded again and
is not in the model. A database copied in part cannot be opened; what SQLite
makes of the log of another database (`strayed`) is left open.

| Property | What it says |
|---|---|
| `UpgradeKeepsRows` | after any number of attempts, an upgrade serves the rows that were last served or restored, and a recorded migration has run to its end |
| `NothingIsLost` | every row that was ever entered can be found: in use, set aside, or in a backup |
| `UpgradeIsBackedUp` | while migrations run, the database as last served, not as a failed attempt left it, is among the backups |

They hold with exceptions that the code makes and the comments of the properties
name. A restore that is cut short, or fails (a full disk), between `SetAside` and
`CopyRest` leaves no database, an empty or an unreadable one; the next start creates a
new database and serves it, instead of degraded mode. `NothingIsLost` says that the
rows are still in the file set aside. A second restore from the same version
replaces that file.

- `RetryKeepsRows` fails, run `migrate_loop_bug`: migration 33 copies users one by
  one, each row committed on its own. If it is cut, or fails at a row it cannot
  convert, the next start finds the copy not empty, takes it for whole, and drops
  the old table with the users that were not copied. One interruption suffices.
  Migration 35 decides in the same way whether its counts were converted.
- `StatementsCanRun` fails, `migrate_stuck_bug`: migration 20, cut between `DROP` and
  `RENAME`, selects from the dropped table at every further start and never ends.
- `RollbackKeepsRows` fails: when a rebuild fails behind its copy, the version in
  the database is still the old one and the old program serves it; the next upgrade
  takes the old copy and drops what was entered since. Only migration 39 discards it.
- `ShapeIsKnown` fails: the newest backup may have been made when an earlier attempt
  had already begun to rebuild, and a program of that version cannot use it.

### Records_proofs: StoreOpen

For any rows, any number of versions, whichever of them rebuilds the table and in
whichever of the four ways, any number of crashes, failures and backups, TLAPS checks
`StoreSpec => []P` for `StoreTypeOK`, `NothingIsLost` and `UpgradeIsBackedUp`, and
`StoreSpec => UpgradeKeepsRows`. It assumes `StoreAssumption` (bounds are natural,
the rebuild is one of the versions) and `StoreNames` (the values that stand for a
missing, empty or torn file, and for no table, are not databases or tables).

The argument is what a database file may look like when a program finds it:

- `FilesInv`: every database in use or backed up is `Sound` (one shape of
  the table, or a copy beside it only in the version before the rebuild) and, unless a
  rebuild is at work, a copy that the next attempt will take for whole is whole
  (`CopyIsWhole`), which is what migration 33 breaks (`CopyWasCut`);
- `RestoreInv` and `StageInv`: what each statement of a restore, a backup and a
  rebuild relies on when it is reached, whatever attempt came before;
- `BackupInv`: the database as last served is in use or among the backups, so that a
  repeated attempt need not back it up again;
- `KeptInv`: while nothing but the rebuild has touched the database since it was served,
  it has the same rows, and so has a copy before the table is dropped;
- `BehindInv`: the file on disk, and the one set aside of the version being
  restored, have no row that the database in use lacks, so that overwriting
  them loses none;
- `FoundInv`: every row ever entered is somewhere.

TLC checks the whole of `StoreInv` on the database's part of the instance of
`records` (2,142,801 states).

### MCRecords

`ChangeLog`, `Settings` and `StoreOpen` are checked in one run, `records`; a
behaviour is about one of them. For the database: three versions of which the second
rebuilds, two rows, all four scripts, two crashes, one failure, two backups. For the settings: four of them, one overridden by the environment,
two requests, an import, a failure and a restart. For the log: two modes, a
category of two services, five transactions in three seconds, one name and two
rows as the limits.

Why the bounds are enough: a log that differs from its file at a restore takes one
crash, a cut restore another; an upgrade, a downgrade and another upgrade with a
second restore take two backups; a partial copy takes two rows. Two requests and an
import are all that can overlap in
a way of their own, as the lock admits one request; a log entry depends on the
first change after an update and whether it was purged, cut off or too large, and
five transactions are an update with changes on both sides of it and a purge.

| Further configuration | Shows |
|---|---|
| `migrate_stuck_bug` | violation of `StatementsCanRun`, see above |
| `settings_reset_bug` | violation of `AcceptedIsApplied`: a reset of a setting that the environment overrides passes the validation and is refused when its turn comes |
| `settings_import_bug` | violation of `AuditIsChain`: an import reads the filters without the lock, and its audit row starts from values that a request has replaced |
| `log_import_bug` | violation of `LogIsTrue`: an import writes no audit row about the user's selection, so updates before it are told by what it brought |

### ConfigImport

The import of a configuration: `users`, `modes` and `feeds` are the tables,
`tracked` is `Manager.peerConfigs`, `preview` what the administrator was shown,
`todo` and `reread` the loop of `syncBGPAfterConfigImport`; `clean` is a history
variable. The loop goes along the names, so `todo` is a set. `PreviewImport`, then `ApplyImport` (all of `ApplyConfigSnapshot`: digest,
placeholders, modes with their numbers, users one after the other, checks of
networks), `StaleImport` or `FailedImport`; then for each affected user `SyncGone`
or `SyncRead` and `SyncPeer`. `EditUser`, `DeleteUser`, `EditMode`, `DropFeed` and
`RestartImport` come in between.

Abstractions. Filters and selections of a user are replaced like his networks and
are not separate. What the manager does with a user is tracked or refused.

| Property | What it says |
|---|---|
| `OrderIsIrrelevant` | an import is accepted exactly if its result is valid, and leaves that result |
| `ConfirmedIsApplied` | it starts from what was shown and does what was shown: nobody is deleted, no password changes |
| `CleanImportIsServed` | when all calls went through, the manager has every user as the database has him |

`import` checks every snapshot over three users, three peers (one of them the
placeholder of another user), a network, two modes and two numbers, on two
databases, with one edit and one restart. Three users allow exchanges in a circle, and
names, ids and placeholders in every order. `import_served_bug`, a further
configuration, checks `ImportIsServed`: it fails, because a user who takes over the peer of one who
comes later by name is refused, and nobody tries again.

### ConfigImport_proofs

For any users, modes, services, snapshots, edits and bounds, TLAPS checks
`ImportSpec => []OrderIsIrrelevant`, `ImportSpec => []CleanImportIsServed` and
`ImportSpec => ConfirmedIsApplied`. It assumes `ImportAssumption`: the lists have
every name and every pair once; snapshots and the initial tables have the form the
decoder and the tables' columns give them; the initial tables satisfy their indexes.

`ApplyConfigSnapshot` is three loops, each writing past an index that may refuse the
row. A loop is a recursive function along the list (`d` in the proof), so what it leaves is
proved from an invariant of the loop: `AlongList` says that what holds of `d[0]`, and of
`d[i]` if of `d[i - 1]`, holds of the last. (It follows from there being a least number
where it fails, as the induction theorems of the library cannot be instantiated;
`StagingExists`, `WritingExists` and `NumberingExists` show that there is such a
function.)

- `StageInv`, of the loop over placeholders: nobody but those who move is changed,
  they have numbers on `TestNet` that nobody in the table has and the
  snapshot does not name, and the index refuses none of it. That the search for a number
  always finds one (`PlaceholderIsFree`) is a matter of cardinality.
- `WriteInv`, of the loop over users: whoever was written has what the snapshot says,
  the others what the first loop left, and the index has refused something exactly if
  somebody who was written has a peer that another has now. Writing one more changes
  this for nobody, because whoever is still to be written is on a placeholder or
  already has the peer he wants.
- `NumbersInv`, of the loop over the numbers of a mode: the same with 0 as the
  placeholder.

`DraftFacts` and `NumbersFacts` draw the conclusion: the order of a list does not
matter. The invariant of the states is `ImportInv`: types, `TablesInv` (the tables
satisfy their indexes and link feeds that exist) and `ServedInv` (whoever is not to
do is in the manager as in the database, until a call is refused or an edit comes in
between). TLC checks it on the instance of `import` (224,571 states; that the
snapshot shown is one that can be uploaded is left to the proof).

### RouteFilter

From feeds to announced prefixes, and what the program says of them. `db` holds
the tables, `announced` what the last reconciliation gave the manager, `current`
whether it went through, `advice` the last answer about a list of networks. Each
action is an edit with the reconciliation that follows: `SyncInclude`,
`SyncExclude`, `SetGlobal`, `SetOwn`, `EditUser`, `Choose`, `EnterNetworks`.
`Reconciliation`, which the start has too, refuses all users if one of them is refused
or all together have too many prefixes, and leaves what was announced before. The
weight is in the operators, which are the algorithms of the code over blocks of
addresses: `normalizeSimple` and `normalizeWithTrie`, `Subtract`, `Intersected`,
`Apply`, `Punched` (`ExcludeSet.Subtract`), `Aggregate`, `BestMatches`
(`findBestMatch`), `CountPrefixes`, `PreviewGlobal`, `Coverage`, `Lookup`. A loop
of the code is a recursive function along a list, with the body as an operator of its
own where a name helps (`Punch`, `Merged`, `Extended`, `Denied`). The properties
compare the operators with sets of addresses.

| Property | What it says |
|---|---|
| `AnnouncedIsExact` | the addresses announced are those selected, allowed, and neither excluded nor denied; prefixes are disjoint; the service a prefix is named for offers all of it |
| `LookupIsTrue` | for every prefix, the shares the lookup gives are right |
| `AdviceIsMinimal` | networks are asked for as the largest blocks of the same addresses |
| `PromisedIsDone` | counts, their differences and previews are what the change then does |

`filter` checks three edits over eight addresses of each of two families, two
services, two users, with `MaxPrefixes` 5 and the threshold of `normalize` 2, so
that both ways of normalising and the refusal occur. Eight addresses have blocks
of four lengths: a prefix inside a prefix inside a prefix, with room on both
sides. `AnnouncedIsExact` and `LookupIsTrue` leave out allow lists with a prefix
that starts where a narrower one of a feed starts. `filter_allow_bug` is the run
that shows why: such a prefix replaces the feed's, so that more is announced
than any feed has (`AllowOnlyRestricts`).

### RouteFilter_proofs

For any width of addresses, families, users, services, feeds, filters, limits
and networks, TLAPS checks `FilterSpec => []AnnouncedIsExact`,
`FilterSpec => []LookupIsTrue`, `FilterSpec => []AdviceIsMinimal` and
`FilterSpec => PromisedIsDone`. It assumes `FilterAssumption` (finitely many
families, which are numbers, as the limits are) and `FilterData` (feeds, filters
and networks are sets of masked prefixes, which is what parsing leaves). So the
32 and 128 bits of real addresses are covered, and lists of any length.

The invariant of the states, `FilterInv`, is small: the tables have their types,
what is announced is what they ask for unless the last reconciliation was refused, and
the advice is of the networks it was asked about. TLC checks it on the instance
of `filter`. It gives `PromisedIsDone` with `CountStep` and `PreviewStep`: what is
computed beforehand and afterwards has the same inputs, and users whom a preview does
not name (mode `override`, for the global filters) do not depend on what changes.

The other three are about what the algorithms compute. Each is a loop along a list;
`LoopExists` says that the recursive function is there, and `AlongList` that what holds
at its start and is kept by every step holds at its end, as in
`ConfigImport_proofs`. The argument has these layers:

- blocks: two prefixes nest or are apart (`Nested`, from the divisibility of powers of
  two, `PowMultiple`), and containment of base addresses with lengths is inclusion of
  addresses (`BlockFacts`);
- `Subtract` leaves prefixes that are apart and together have the addresses of p
  without d (`SubtractFacts`; `HalvesFacts` by induction on the length);
- sorting lists every element once in the order asked for (`SortedFacts`, `ByLength`,
  `ByAddress`, `ByStart`), so a kept prefix is met before what it covers:
  `normalizeSimple` and `normalizeWithTrie` both leave prefixes that are apart with
  the addresses given (`UncoveredFacts`), which is also why the threshold between the
  two does not matter;
- `Apply` and `ExcludeSet.Subtract` keep `Parts`: pieces that are apart, each within
  one of the given prefixes, with the addresses asked for (`ApplyFacts`,
  `PunchedFacts`). That the search through the excludes may stop at the first that ends
  too early uses that they are apart. `IntersectedFacts` needs `~Widened`,
  which is where `filter_allow_bug` comes from;
- the service a prefix is named for: each piece lies in a route, so the search finds
  one (`BestMatchFacts`), and a route that holds its first address and is no longer
  than it holds all of it (`Nested`);
- `Coverage` counts the union of ranges (`CoverageFacts`, an invariant on how many
  addresses are counted and where the open range is), and the filters of the services
  that match leave the same of the target as the filters of all (`LookedUpFacts`);
- `Aggregate`: merged ranges are separate, with a gap between them (`RangesOfFacts`),
  so a block lies in the addresses exactly if it lies in one range; cutting a range
  into the largest blocks that fit gives the maximal ones (`BlocksFacts`, by induction on
  what is left of the range).

## What is proved and what is only checked

Eight modules of theorems: `PeerSession_proofs`, `BgpManager_proofs`,
`PrefixAlerts_proofs`, `FeedSync_proofs`, `Catalog_proofs`, `Records_proofs` (of
`Settings`, `StoreOpen` and `ChangeLog`), `ConfigImport_proofs` and
`RouteFilter_proofs`, each for every value of the constants that satisfies the named
assumptions of its module. Every invariant and every action property of a passing run
is the conclusion of one of their theorems. What TLC alone checks, and why:

- liveness (`RetryDelivers`, `StopEndsAll`, `EveryCallEnds`, `PendingIsTold`): the
  provers have neither fairness nor `ENABLED`;
- `IPv6OnlyIfOffered` of `PeerSession` and `Agreement` of `BgpManager`, which hold on
  restricted instances only and are checked by further configurations;
- the statements that the runs with a violation refute.

## Runs

`PROJECT.json` lists the twelve runs: `peer_dial`, `peer_both`, `mgr_serial`,
`mgr_concurrent`, `alerts`, `feeds`, `catalog`, `records`, `import` and `filter`
hold; `filter_allow_bug` and `migrate_loop_bug` end in the violation of a
statement the repository makes about itself. Every property of a run is also
checked against a wrong version of one definition, which it must reject: these
versions stand in the modules before the definitions of the same shape, and no
action uses them. The other `.cfg` files are further instances, named with their
modules above, to be run with `tlc -config X.cfg M`.

Bounds are constants named `Max...`, used in guards only. Fairness is assumed in
`peer_dial`, `mgr_concurrent` and `alerts` only, where the sections above justify
it. `FeedSync`, `Catalog`, `ChangeLog`, `Settings`, `StoreOpen`,
`ConfigImport` and `RouteFilter` are safety specifications without fairness.

## Plan

Done: `PeerSession`, `BgpManager`, `PrefixAlerts`, `FeedSync`, `Catalog`,
`ChangeLog`, `Settings`, `StoreOpen`, `ConfigImport` and `RouteFilter` with their
runs and proofs, and `AlertFeed`, which `PrefixAlerts` implements. Next, in this order:

1. `IPv6OnlyIfOffered` for a dialing peer, `Agreement` without IPv6 addresses.
2. `WebSession`: logins, sessions and the rate limiter.
3. `DynamicMD5`: the packet queue that serves passwords of dynamic peers.
4. `CircuitBreaker`, with the bound on half-open trials as a theorem.

## Not modelled

- The wire format (`wire_*.go`) is encoding and decoding without state;
  `PeerSession` takes messages as values.
- The packet queue and the netfilter rules of dynamic peers, and the system calls
  of TCP MD5: `BgpManager` has the keys of the listener only.
- Sessions, the rate limiter and the middleware of the web server.
- What the migrations do to the data: `StoreOpen` has their order, their statements
  that commit on their own, and one table.
- The circuit breaker and `retry.Do`, which only their tests call.
- Downloads, the JavaScript sandbox and the rule-set parsers of the feeds: they
  turn bytes into entries and keep no state.
- Lists, dashboards, charts and status reports, which only read; translations,
  logging, error values; the web user interface.

`PROJECT.json` lists every component with its status, and every hazard with the
properties about it.
