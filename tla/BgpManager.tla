----------------------------- MODULE BgpManager -----------------------------
(***************************************************************************)
(* The BGP manager (bgp.Manager) and the part of the speaker it drives     *)
(* (Speaker.SetPeers, Speaker.Announce), between the web requests that     *)
(* change users and the peers that serve them.                             *)
(*                                                                         *)
(* A request writes the store first and calls the manager afterwards, so   *)
(* what it hands over may be old by then.  Manager.mu makes each call of   *)
(* the manager one step, except that reconcileLocked is a step per peer    *)
(* (holder names who is inside) and that startLocked reads the store       *)
(* twice.  A peer is a session configuration and the routes it was last    *)
(* told to announce; module PeerSession says what it does with them.       *)
(*                                                                         *)
(* An operator that no action uses, placed before one of the same shape,   *)
(* is a wrong version of it: it is there to show which properties notice.  *)
(***************************************************************************)
EXTENDS Naturals, Sequences, FiniteSets

CONSTANTS
    MaxId,       \* bound: user ids are 1..MaxId
    Addrs,       \* peer addresses
    Dynamic,     \* those of dynamic peers: 0.0.0.0 and ::
    IPv6,        \* the IPv6 ones
    Asns,
    Passwords,
    NoPw,        \* the empty password
    NoRow,       \* "no such user"
    Routes,
    IPv6Routes,
    Rows,        \* the rows that requests may ask for
    Settings,    \* values of the restart-only settings
    Requests,    \* goroutines of the web server
    Main,        \* the main goroutine
    Nobody,      \* Manager.mu is free
    Ops,         \* what requests do
    Overlap,     \* whether requests run at the same time
    MaxRequests, \* bound: requests in a behaviour
    MaxFaults    \* bound: failures of the database, the kernel or the network

Ids == 1..MaxId
Procs == Requests \cup {Main}
Row == [addr : Addrs, asn : Asns, pw : Passwords \cup {NoPw},
        dial : BOOLEAN, enabled : BOOLEAN]
Config == [id : Ids, row : Row]
Keys == Addrs \X Asns

ASSUME ManagerAssumption ==
    /\ MaxId \in Nat \ {0}
    /\ MaxRequests \in Nat
    /\ MaxFaults \in Nat
    /\ Dynamic \subseteq Addrs
    /\ IPv6 \subseteq Addrs
    /\ IPv6Routes \subseteq Routes
    /\ NoPw \notin Passwords
    /\ NoRow \notin Row
    /\ Rows \subseteq Row
    /\ Settings \subseteq [dial : BOOLEAN, v6 : BOOLEAN]
    /\ Main \notin Requests
    /\ Nobody \notin Procs
    /\ Overlap \in BOOLEAN

VARIABLES
    store,    \* the users table
    want,     \* what selections, feeds and filters give each user
    setting,  \* the restart-only settings, as they are
    pending,  \* Server.restartPending
    running,  \* Manager.speaker # nil
    snap,     \* the restart-only settings the manager runs with
    configs,  \* Manager.peerConfigs
    cache,    \* Manager.peerRoutes
    peers,    \* Speaker.peers
    applied,  \* Speaker.peerConfigs
    md5,      \* the listener's TCP MD5 key of each address
    holder,   \* who holds Manager.mu across steps
    loop,     \* what reconcileLocked has read and has left to do
    pc,       \* where each goroutine is
    req,      \* what each request is about
    faults,   \* failures so far
    served,   \* requests so far
    shared    \* history: sessions two tracked users have shared since the
              \* speaker started

speakerVars == <<peers, applied, md5>>
managerVars == <<running, snap, configs, cache, speakerVars, shared>>
outside == <<store, want, setting, pending>>
vars == <<outside, managerVars, holder, loop, pc, req, faults, served>>

----------------------------------------------------------------------------
(* Shapes *)

Empty == [k \in {} |-> k]
IsPartial(f, D, R) ==
    DOMAIN f \subseteq D /\ f \in [DOMAIN f -> R]
PeerConfigs == [key : Keys, pw : Passwords \cup {NoPw}, dials : BOOLEAN]
Peers == [pw : Passwords \cup {NoPw}, dials : BOOLEAN, routes : SUBSET Routes]
NoKeys == [a \in Addrs |-> NoPw]
Key(row) == <<row.addr, row.asn>>

Loops == [todo : Seq(Config), want : [Ids -> SUBSET Routes], failed : BOOLEAN]
NoLoop == [todo |-> <<>>, want |-> [i \in Ids |-> {}], failed |-> FALSE]

Reqs == [op : Ops, id : Ids, row : Row \cup {NoRow}, routes : SUBSET Routes,
         setting : Settings, found : BOOLEAN]
Idle == "idle"

Without(f, k) == [x \in DOMAIN f \ {k} |-> f[x]]
With(f, k, v) == [x \in DOMAIN f \cup {k} |-> IF x = k THEN v ELSE f[x]]

Goto(h, stage) == pc' = [pc EXCEPT ![h] = stage]
Fault == faults < MaxFaults /\ faults' = faults + 1
NoFault == UNCHANGED faults

AnyPassword(row, id) ==
    \A i \in Ids : store[i] # NoRow /\ i # id => Key(store[i]) # Key(row)
\* validatePeerUniqueness, with RequirePasswordForNonUniqueIP set.
PeerAllowed(row, id) ==
    LET others == {store[i] : i \in {j \in Ids : store[j] # NoRow /\ j # id}}
    IN  /\ \A other \in others : Key(other) # Key(row)
        /\ IF row.addr \in Dynamic
           THEN \A other \in others : other.asn # row.asn
           ELSE \A other \in others :
                    other.addr = row.addr => /\ row.pw # NoPw
                                             /\ other.pw = row.pw

\* The UNIQUE(peer_ip, peer_asn) index.
Unique(row, id) ==
    \A i \in Ids : store[i] # NoRow /\ i # id => Key(store[i]) # Key(row)

Init ==
    /\ store \in [Ids -> {NoRow} \cup Rows]
    /\ \A i \in Ids : store[i] # NoRow => PeerAllowed(store[i], i)
    /\ want \in [Ids -> SUBSET Routes]
    /\ setting \in Settings
    /\ pending = FALSE
    /\ running = FALSE
    /\ snap = setting
    /\ configs = <<>>
    /\ cache = Empty
    /\ peers = Empty
    /\ applied = <<>>
    /\ md5 = NoKeys
    /\ holder = Nobody
    /\ loop = NoLoop
    /\ pc = [h \in Procs |-> IF h = Main THEN "load" ELSE Idle]
    /\ req = [h \in Procs |-> NoRow]
    /\ faults = 0
    /\ served = 0
    /\ shared = {}

----------------------------------------------------------------------------
(* Speaker.SetPeers *)

\* applyListenerMD5 and clearListenerMD5: the addresses that take a key.
Keyed(c) == c.pw # NoPw /\ c.key[1] \notin Dynamic

\* Two passwords for one address: the kernel has one key per address.
Conflicting(new) ==
    \E i, j \in DOMAIN new :
        /\ Keyed(new[i])
        /\ Keyed(new[j])
        /\ new[i].key[1] = new[j].key[1]
        /\ new[i].pw # new[j].pw

\* The listener's keys after the first n configurations were applied to old.
KeysApplied(old, new, n) ==
    LET givers(a) == {i \in 1..n : Keyed(new[i]) /\ new[i].key[1] = a}
    IN  [a \in Addrs |-> IF givers(a) = {} THEN old[a]
                         ELSE new[CHOOSE i \in givers(a) : TRUE].pw]

NoSurvivors(new) == {}
Survivors(new) == {new[i].key[1] : i \in DOMAIN new}

\* Clearing the keys of addresses that are gone.  The kernel refuses to clear
\* a key it does not have, and clearListenerMD5 stops at the first refusal.
KeysCleared(given, old, new) ==
    LET gone == {i \in DOMAIN old : /\ old[i].pw # NoPw
                                    /\ old[i].key[1] \notin Survivors(new)}
        refused(i) ==
            \/ given[old[i].key[1]] = NoPw
            \/ \E j \in gone : j < i /\ old[j].key[1] = old[i].key[1]
        cleared == {old[i].key[1] : i \in {n \in gone :
                        \A m \in gone : m <= n => ~refused(m)}}
    IN  [a \in Addrs |-> IF a \in cleared THEN NoPw ELSE given[a]]

\* Of several configurations with one key the last one counts (newSet).
LastWith(new, k) ==
    new[CHOOSE i \in DOMAIN new :
            new[i].key = k /\ \A j \in DOMAIN new : new[j].key = k => j <= i]

AlwaysChanged(peer, c) == FALSE
Unchanged(peer, c) == peer.pw = c.pw /\ peer.dials = c.dials

PeersSet(old, new) ==
    [k \in {new[i].key : i \in DOMAIN new} |->
        LET c == LastWith(new, k)
        IN  IF k \in DOMAIN old /\ Unchanged(old[k], c) THEN old[k]
            ELSE [pw |-> c.pw, dials |-> c.dials, routes |-> {}]]

\* buildPeerConfigs: one session configuration per tracked user, unless an
\* IPv6 peer is among them and there is no local IPv6 address.
PeerConfig(c, s) ==
    [key   |-> Key(c.row),
     pw    |-> c.row.pw,
     dials |-> c.row.dial /\ s.dial /\ c.row.addr \notin Dynamic]
BuildPeerConfigs(cfgs, s) == [i \in DOMAIN cfgs |-> PeerConfig(cfgs[i], s)]
Buildable(cfgs) == \A i \in DOMAIN cfgs : cfgs[i].row.addr \in IPv6 => snap.v6

\* The peers of cfgs are built and set.
SetPeers(cfgs) ==
    LET new == BuildPeerConfigs(cfgs, snap)
    IN  /\ Buildable(cfgs)
        /\ ~Conflicting(new)
        /\ peers' = PeersSet(peers, new)
        /\ applied' = new
        /\ md5' = KeysCleared(KeysApplied(md5, new, Len(new)), applied, new)
        /\ NoFault

\* They are not: nothing was built, two passwords conflict, or the kernel
\* refuses the key of the configuration after the first n.
SetPeersFails(cfgs) ==
    LET new == BuildPeerConfigs(cfgs, snap)
    IN  /\ UNCHANGED <<peers, applied>>
        /\ \/ /\ ~Buildable(cfgs) \/ Conflicting(new)
              /\ UNCHANGED md5
              /\ NoFault
           \/ /\ Buildable(cfgs)
              /\ ~Conflicting(new)
              /\ \E n \in 0..(Len(new) - 1) :
                     /\ Keyed(new[n + 1])
                     /\ md5' = KeysApplied(md5, new, n)
              /\ Fault

----------------------------------------------------------------------------
(* Requests: what happens before the manager is called *)

Serving == pc[Main] = "serve"
Running(h) == pc[h] # Idle

Begin(h, r, stage) ==
    /\ Serving
    /\ pc[h] = Idle
    /\ r.op \in Ops
    /\ served < MaxRequests
    /\ Overlap \/ \A g \in Requests : ~Running(g)
    /\ served' = served + 1
    /\ req' = [req EXCEPT ![h] = r]
    /\ Goto(h, stage)
    /\ UNCHANGED <<outside, managerVars, holder, loop, faults>>

Blank == [op |-> "sync", id |-> 1, row |-> NoRow, routes |-> {},
          setting |-> setting, found |-> TRUE]

BeginCreate(h) == \E row \in Rows :
    /\ store[MaxId] = NoRow
    /\ PeerAllowed(row, 0)
    /\ Begin(h, [Blank EXCEPT !.op = "create", !.row = row], "commit")
BeginUpdate(h) == \E id \in Ids, row \in Rows :
    /\ store[id] # NoRow
    /\ PeerAllowed(row, id)
    /\ Begin(h, [Blank EXCEPT !.op = "update", !.id = id, !.row = row],
             "commit")
BeginDelete(h) == \E id \in Ids :
    Begin(h, [Blank EXCEPT !.op = "delete", !.id = id,
                           !.found = store[id] # NoRow], "commit")
\* A selection, a feed or a filter changes what a user should get.
BeginRoutes(h) == \E id \in Ids, rs \in SUBSET Routes :
    /\ rs # want[id]
    /\ Begin(h, [Blank EXCEPT !.op = "routes", !.id = id, !.routes = rs],
             "commit")
BeginSetting(h) == \E s \in Settings :
    /\ s # setting
    /\ Begin(h, [Blank EXCEPT !.op = "setting", !.setting = s], "commit")
\* syncLoop's own reconciliation, and "apply BGP settings".
BeginSync(h) == Begin(h, Blank, "reconcile")
BeginReload(h) == Begin(h, [Blank EXCEPT !.op = "reload"], "load")

Commits(h, op) ==
    /\ pc[h] = "commit"
    /\ req[h].op = op
    /\ UNCHANGED <<managerVars, holder, loop, faults, served>>

\* users has no AUTOINCREMENT: the new id follows the largest one in use.
\* (A request for which MaxId leaves no id is refused, too.)
CommitCreate(h) ==
    /\ Commits(h, "create")
    /\ \/ \E id \in Ids :
           /\ \A i \in Ids : store[i] # NoRow => i < id
           /\ id > 1 => store[id - 1] # NoRow
           /\ Unique(req[h].row, id)
           /\ store' = [store EXCEPT ![id] = req[h].row]
           /\ req' = [req EXCEPT ![h].id = id]
           /\ Goto(h, IF req[h].row.enabled THEN "add" ELSE Idle)
       \/ /\ ~Unique(req[h].row, 0) \/ store[MaxId] # NoRow
          /\ Goto(h, Idle)
          /\ UNCHANGED <<store, req>>
    /\ UNCHANGED <<want, setting, pending>>

CommitUpdate(h) ==
    LET id == req[h].id
        row == req[h].row
    IN  /\ Commits(h, "update")
        /\ \/ /\ store[id] # NoRow
              /\ Unique(row, id)
              /\ store' = [store EXCEPT ![id] = row]
              /\ Goto(h, IF row.enabled THEN "read" ELSE "delete")
           \/ /\ store[id] = NoRow \/ ~Unique(row, id)
              /\ Goto(h, Idle)
              /\ UNCHANGED store
        /\ UNCHANGED <<want, setting, pending, req>>

\* "Reload user": the row may be another request's by now.
ReadUser(h) ==
    LET row == store[req[h].id]
    IN  /\ pc[h] = "read"
        /\ \/ /\ IF row = NoRow THEN NoFault ELSE Fault
              /\ Goto(h, Idle)
              /\ UNCHANGED req
           \/ /\ row # NoRow
              /\ NoFault
              /\ req' = [req EXCEPT ![h].row = row]
              /\ Goto(h, "update")
        /\ UNCHANGED <<outside, managerVars, holder, loop, served>>

\* A new user's filters are saved after it is: when that fails, the user is
\* in the store and the manager is not told.
FiltersNotSaved(h) ==
    /\ pc[h] = "add"
    /\ Fault
    /\ Goto(h, Idle)
    /\ UNCHANGED <<outside, managerVars, holder, loop, req, served>>

\* The manager is told only if the user was there when the request began.
CommitDelete(h) ==
    LET id == req[h].id
    IN  /\ Commits(h, "delete")
        /\ store' = [store EXCEPT ![id] = NoRow]
        /\ Goto(h, IF store[id] # NoRow /\ req[h].found THEN "delete" ELSE Idle)
        /\ UNCHANGED <<want, setting, pending, req>>

CommitRoutes(h) ==
    /\ Commits(h, "routes")
    /\ want' = [want EXCEPT ![req[h].id] = req[h].routes]
    /\ Goto(h, "reconcile")
    /\ UNCHANGED <<store, setting, pending, req>>

\* Set: the value first, then the OnChange callback.
CommitSetting(h) ==
    /\ Commits(h, "setting")
    /\ setting' = req[h].setting
    /\ Goto(h, "notify")
    /\ UNCHANGED <<store, want, pending, req>>
PendingNotMarked == UNCHANGED pending
MarkPending == pending' = TRUE
NotifySetting(h) ==
    /\ pc[h] = "notify"
    /\ MarkPending
    /\ Goto(h, Idle)
    /\ UNCHANGED <<store, want, setting, managerVars, holder, loop, req,
                   faults, served>>

----------------------------------------------------------------------------
(* Calls that change the tracked users: one step each, under Manager.mu *)

Calls(h, stage) ==
    /\ pc[h] = stage
    /\ holder = Nobody
    /\ UNCHANGED <<outside, running, snap, holder, loop, req, served>>

Requested(h) == [id |-> req[h].id, row |-> req[h].row]
Taken(c) == \E i \in DOMAIN configs : Key(configs[i].row) = Key(c.row)

\* The first tracked user with that id, if there is one.
IndexOf(id) == {i \in DOMAIN configs :
                  /\ configs[i].id = id
                  /\ \A j \in DOMAIN configs : configs[j].id = id => i <= j}
RemovedAt(i) == [j \in 1..(Len(configs) - 1) |->
                   IF j < i THEN configs[j] ELSE configs[j + 1]]

\* One more user is tracked, unless its peer is, or the peers cannot be set.
Track(h, c) ==
    /\ UNCHANGED <<cache, shared>>
    /\ \/ /\ ~Taken(c)
          /\ SetPeers(Append(configs, c))
          /\ configs' = Append(configs, c)
          /\ Goto(h, "reconcile")
       \/ /\ ~Taken(c)
          /\ SetPeersFails(Append(configs, c))
          /\ UNCHANGED configs
          /\ Goto(h, Idle)
       \/ /\ Taken(c)
          /\ UNCHANGED <<configs, speakerVars, faults>>
          /\ Goto(h, Idle)

AddPeer(h) ==
    /\ Calls(h, "add")
    /\ running
    /\ Track(h, Requested(h))

UpdateUntracked(h) ==
    /\ Calls(h, "update")
    /\ running
    /\ IndexOf(req[h].id) = {}
    /\ Track(h, Requested(h))

\* UpdatePeer forgets what a session was sent when SetPeers will restart it.
KeyChanges(old, c) == Key(old.row) # Key(c.row)
Restarts(old, c) ==
    \/ Key(old.row) # Key(c.row)
    \/ old.row.pw # c.row.pw
    \/ PeerConfig(old, snap).dials # PeerConfig(c, snap).dials
CacheForUpdate(old, c) ==
    IF Restarts(old, c) THEN Without(cache, Key(old.row)) ELSE cache
\* The rollback leaves an entry without routes for the old key.
CacheRolledBack(old, c) ==
    LET placed == With(CacheForUpdate(old, c), Key(old.row), {})
    IN  IF KeyChanges(old, c) THEN Without(placed, Key(c.row)) ELSE placed
Duplicates(cfgs) ==
    {k \in Keys : \E i, j \in DOMAIN cfgs :
        i # j /\ Key(cfgs[i].row) = k /\ Key(cfgs[j].row) = k}
ConfigsKept(i, c) == configs' = [configs EXCEPT ![i] = c]
ConfigsRolledBack(i, c) == configs' = configs

UpdateTracked(h) ==
    LET c == Requested(h)
    IN  /\ Calls(h, "update")
        /\ running
        /\ \E i \in IndexOf(c.id) :
              LET next == [configs EXCEPT ![i] = c]
              IN  \/ /\ SetPeers(next)
                     /\ configs' = next
                     /\ shared' = shared \cup Duplicates(next)
                     /\ cache' = CacheForUpdate(configs[i], c)
                     /\ Goto(h, "reconcile")
                  \/ /\ SetPeersFails(next)
                     /\ ConfigsRolledBack(i, c)
                     /\ UNCHANGED shared
                     /\ cache' = CacheRolledBack(configs[i], c)
                     /\ Goto(h, Idle)

\* The callers of DeletePeer go on to Reconcile whatever it returns; when
\* the peers cannot be set the user is no longer tracked all the same.
DeletePeer(h) ==
    /\ Calls(h, "delete")
    /\ running
    /\ \/ \E i \in IndexOf(req[h].id) :
              /\ SetPeers(RemovedAt(i)) \/ SetPeersFails(RemovedAt(i))
              /\ configs' = RemovedAt(i)
              /\ cache' = Without(cache, Key(configs[i].row))
       \/ /\ IndexOf(req[h].id) = {}
          /\ UNCHANGED <<configs, cache, speakerVars, faults>>
    /\ UNCHANGED shared
    /\ Goto(h, "reconcile")

\* "BGP speaker is not running": the calls change nothing.
NotRunning(h) ==
    /\ ~running
    /\ holder = Nobody
    /\ \/ pc[h] \in {"add", "update", "reconcile"} /\ Goto(h, Idle)
       \/ pc[h] = "delete" /\ Goto(h, "reconcile")
    /\ UNCHANGED <<outside, managerVars, holder, loop, req, faults, served>>

----------------------------------------------------------------------------
(* reconcileLocked *)

Enabled(id) == store[id] # NoRow /\ store[id].enabled

\* What each user should get: nothing if disabled, and no IPv6 routes
\* without a local IPv6 address.
DesiredPrefixes ==
    [i \in Ids |->
        {r \in want[i] : Enabled(i) /\ (r \in IPv6Routes => snap.v6)}]

StartLoop(h, stage) ==
    /\ loop' = [todo |-> configs, want |-> DesiredPrefixes, failed |-> FALSE]
    /\ holder' = h
    /\ Goto(h, stage)

\* Its errors are logged by every caller and stop nothing.
Reconcile(h) ==
    /\ pc[h] = "reconcile"
    /\ holder = Nobody
    /\ running
    /\ \/ /\ StartLoop(h, "loop")
          /\ NoFault
       \/ /\ Fault
          /\ Goto(h, Idle)
          /\ UNCHANGED <<holder, loop>>
    /\ UNCHANGED <<outside, managerVars, req, served>>

Looping(h) == pc[h] \in {"loop", "startloop"} /\ loop.todo # <<>>
Desired(c) == loop.want[c.id]
UpToDate(c) == Key(c.row) \in DOMAIN cache /\ cache[Key(c.row)] = Desired(c)

\* A user of which nothing is to be announced.
SkipPeer(h) ==
    /\ Looping(h)
    /\ ~Head(loop.todo).row.enabled \/ UpToDate(Head(loop.todo))
    /\ loop' = [loop EXCEPT !.todo = Tail(@)]
    /\ UNCHANGED <<outside, managerVars, holder, pc, req, faults, served>>

\* The peer has the routes now, also when their delivery failed.
Announced(k, rs) ==
    IF k \in DOMAIN peers THEN [peers EXCEPT ![k].routes = rs] ELSE peers
CacheKept(k) == cache
CacheDropped(k) == Without(cache, k)

\* Speaker.Announce, and the entry that records its success.
AnnouncePeer(h) ==
    LET c == Head(loop.todo)
        k == Key(c.row)
        rs == Desired(c)
    IN  /\ Looping(h)
        /\ c.row.enabled
        /\ ~UpToDate(c)
        /\ peers' = Announced(k, rs)
        /\ \/ /\ k \in DOMAIN peers
              /\ cache' = With(cache, k, rs)
              /\ loop' = [loop EXCEPT !.todo = Tail(@)]
              /\ NoFault
           \/ /\ IF k \in DOMAIN peers THEN Fault ELSE NoFault
              /\ cache' = CacheDropped(k)
              /\ loop' = [loop EXCEPT !.todo = Tail(@), !.failed = TRUE]
        /\ UNCHANGED <<outside, running, snap, configs, applied, md5, shared,
                       holder, pc, req, served>>

MutexKept(h) == UNCHANGED holder
MutexReleased(h) == holder' = Nobody

EndReconcile(h) ==
    /\ pc[h] = "loop"
    /\ loop.todo = <<>>
    /\ loop' = NoLoop
    /\ MutexReleased(h)
    /\ Goto(h, Idle)
    /\ UNCHANGED <<outside, managerVars, req, faults, served>>

----------------------------------------------------------------------------
(* Start, ReloadPeers and Stop *)

SpeakerGone ==
    /\ running' = FALSE
    /\ peers' = Empty
    /\ applied' = <<>>
    /\ md5' = NoKeys

\* Without BGP, Main serves on, and a reload answers with the error.
StartFailed(h) ==
    /\ SpeakerGone
    /\ Goto(h, IF h = Main THEN "serve" ELSE Idle)

\* The users startLocked tracks.
Loadable == {i \in Ids : Enabled(i) /\ (store[i].addr \in IPv6 => setting.v6)}

\* The old speaker is stopped, the settings are read, the users are loaded in
\* the order of their ids, and their peers are set; or one of these fails.
LoadPeers(h) ==
    /\ pc[h] = "load"
    /\ holder = Nobody
    /\ snap' = setting
    /\ cache' = Empty
    /\ \E ids \in [1..Cardinality(Loadable) -> Loadable] :
         LET cfgs == [n \in DOMAIN ids |-> [id |-> ids[n], row |-> store[ids[n]]]]
             new == BuildPeerConfigs(cfgs, setting)
         IN  /\ \A m, n \in DOMAIN ids : m < n => ids[m] < ids[n]
             /\ shared' = Duplicates(cfgs)
             /\ \/ /\ ~Conflicting(new)
                   /\ running' = TRUE
                   /\ configs' = cfgs
                   /\ peers' = PeersSet(Empty, new)
                   /\ applied' = new
                   /\ md5' = KeysApplied(NoKeys, new, Len(new))
                   /\ holder' = h
                   /\ Goto(h, "loaded")
                   /\ NoFault
                \/ /\ Conflicting(new)
                   /\ configs' = cfgs
                   /\ StartFailed(h)
                   /\ NoFault
                   /\ UNCHANGED holder
                \/ /\ Fault
                   /\ configs' \in {configs, cfgs}
                   /\ StartFailed(h)
                   /\ UNCHANGED holder
    /\ UNCHANGED <<outside, loop, req, served>>

\* startLocked goes on to reconcile; the users are read a second time.
LoadRoutes(h) ==
    /\ pc[h] = "loaded"
    /\ \/ /\ StartLoop(h, "startloop")
          /\ UNCHANGED <<running, speakerVars>>
          /\ NoFault
       \/ /\ Fault
          /\ StartFailed(h)
          /\ MutexReleased(h)
          /\ UNCHANGED loop
    /\ UNCHANGED <<outside, snap, configs, cache, shared, req, served>>

\* A delivery that failed takes BGP down again.
EndStart(h) ==
    /\ pc[h] = "startloop"
    /\ loop.todo = <<>>
    /\ \/ /\ loop.failed
          /\ StartFailed(h)
       \/ /\ ~loop.failed
          /\ Goto(h, IF h = Main THEN "serve" ELSE "clear")
          /\ UNCHANGED <<running, speakerVars>>
    /\ loop' = NoLoop
    /\ MutexReleased(h)
    /\ UNCHANGED <<outside, snap, configs, cache, shared, req, faults,
                   served>>

\* apiBGPReload, after ReloadPeers has returned.
ClearPending(h) ==
    /\ pc[h] = "clear"
    /\ pending' = FALSE
    /\ Goto(h, Idle)
    /\ UNCHANGED <<store, want, setting, managerVars, holder, loop, req,
                   faults, served>>

\* The process shuts down; requests may still be under way.
Stop ==
    /\ Serving
    /\ holder = Nobody
    /\ SpeakerGone
    /\ configs' = <<>>
    /\ cache' = Empty
    /\ Goto(Main, "stopped")
    /\ UNCHANGED <<outside, snap, shared, holder, loop, req, faults, served>>

Starting(h) ==
    \/ BeginCreate(h) \/ BeginUpdate(h) \/ BeginDelete(h) \/ BeginRoutes(h)
    \/ BeginSetting(h) \/ BeginSync(h) \/ BeginReload(h)

Request(h) ==
    \/ CommitCreate(h) \/ FiltersNotSaved(h)
    \/ CommitUpdate(h) \/ ReadUser(h) \/ CommitDelete(h)
    \/ CommitRoutes(h) \/ CommitSetting(h) \/ NotifySetting(h)
    \/ AddPeer(h) \/ UpdateUntracked(h) \/ UpdateTracked(h) \/ DeletePeer(h)
    \/ NotRunning(h) \/ Reconcile(h) \/ EndReconcile(h) \/ ClearPending(h)

Loading(h) ==
    \/ LoadPeers(h) \/ LoadRoutes(h) \/ EndStart(h)
    \/ SkipPeer(h) \/ AnnouncePeer(h)

Next ==
    \/ \E h \in Requests : Starting(h) \/ Request(h)
    \/ \E h \in Procs : Loading(h)
    \/ Stop

Spec == Init /\ [][Next]_vars

\* A goroutine that has begun goes on, also past Manager.mu while others use
\* it: Go hands a mutex over to whoever has starved for a millisecond.
Fairness ==
    /\ \A h \in Requests : SF_vars(Request(h))
    /\ \A h \in Procs : SF_vars(Loading(h))
FairSpec == Spec /\ Fairness

----------------------------------------------------------------------------
(* Properties *)

Stages == {Idle, "commit", "read", "add", "update", "delete", "reconcile",
           "loop", "load", "loaded", "startloop", "clear", "notify", "serve",
           "stopped"}

\* Every variable keeps its shape, and whoever is inside the manager across
\* steps holds its mutex (Manager.mu).
TypeOK ==
    /\ store \in [Ids -> Row \cup {NoRow}]
    /\ want \in [Ids -> SUBSET Routes]
    /\ setting \in Settings
    /\ pending \in BOOLEAN
    /\ running \in BOOLEAN
    /\ snap \in Settings
    /\ configs \in Seq(Config)
    /\ IsPartial(cache, Keys, SUBSET Routes)
    /\ IsPartial(peers, Keys, Peers)
    /\ applied \in Seq(PeerConfigs)
    /\ md5 \in [Addrs -> Passwords \cup {NoPw}]
    /\ holder \in Procs \cup {Nobody}
    /\ loop \in Loops
    /\ pc \in [Procs -> Stages]
    /\ req \in [Procs -> Reqs \cup {NoRow}]
    /\ faults \in 0..MaxFaults
    /\ served \in 0..MaxRequests
    /\ shared \subseteq Keys
    /\ \A h \in Procs : pc[h] \in {"loop", "loaded", "startloop"} <=> holder = h

\* A non-empty entry of peerRoutes is what the session of that key, started
\* anew or not, has been told to announce: reconcileLocked relies on it to
\* skip an announcement, so whatever empties a session must drop its entry.
CacheDelivered ==
    running => \A k \in DOMAIN cache \ shared :
        cache[k] # {} => k \in DOMAIN peers /\ peers[k].routes = cache[k]

AtEnd == loop.todo = <<>> /\ ~loop.failed
\* A reconciliation that returns no error has brought every enabled tracked
\* user's session to the routes the store desired.
ReconcileDelivers ==
    \A i \in DOMAIN configs :
        LET c == configs[i]
            k == Key(c.row)
        IN  /\ \E h \in Procs : pc[h] \in {"loop", "startloop"}
            /\ AtEnd
            /\ c.row.enabled
            /\ k \notin shared
            /\ Desired(c) # {}
            => k \in DOMAIN peers /\ peers[k].routes = Desired(c)

\* The same when nothing is desired: nothing is left announced either
\* (manager.go:346 "placeholder for reconcile to repopulate").
ReconcileWithdraws ==
    \A i \in DOMAIN configs :
        LET c == configs[i]
            k == Key(c.row)
        IN  /\ \E h \in Procs : pc[h] \in {"loop", "startloop"}
            /\ AtEnd
            /\ c.row.enabled
            /\ k \notin shared
            /\ Desired(c) = {}
            => k \in DOMAIN peers /\ peers[k].routes = {}

\* While a peer with a password runs, the listener demands some password of
\* its address: SetPeers never leaves an address open, whichever users share
\* it and however a call fails.
PasswordEnforced ==
    \A k \in DOMAIN peers :
        peers[k].pw # NoPw /\ k[1] \notin Dynamic => md5[k[1]] # NoPw

\* The listener demands a password only of addresses whose peer has one
\* (md5.go:126: keys are removed "for peers that are being removed or whose
\* passwords changed").
NoStaleKeys ==
    \A a \in Addrs : md5[a] # NoPw =>
        \E k \in DOMAIN peers : k[1] = a /\ peers[k].pw # NoPw

\* An update that fails leaves the tracked users and their sessions alone.
FailedUpdateChangesNothing ==
    [][\A h \in Procs :
          pc[h] = "update" /\ pc'[h] = Idle => UNCHANGED <<configs, peers>>]_vars

\* A call about one user does not touch the session of another one, unless
\* the two share it.
OthersKeepTheirSession ==
    [][\A h \in Procs, i \in DOMAIN configs :
          LET k == Key(configs[i].row)
          IN  /\ running
              /\ pc[h] \in {"add", "update", "delete"}
              /\ pc'[h] # pc[h]
              /\ configs[i].id # req[h].id
              /\ k \notin shared'
              => k \in DOMAIN peers' /\ peers'[k] = peers[k]]_vars

Quiet == Serving /\ \A h \in Requests : pc[h] = Idle

\* With no request under way and no failure, the manager tracks the enabled
\* users as they are in the store (manager.go:25 "all configured peers").
Agreement ==
    Quiet /\ running /\ faults = 0 =>
        {configs[i] : i \in DOMAIN configs} =
            {[id |-> i, row |-> store[i]] : i \in {j \in Ids : Enabled(j)}}

\* Two tracked users never share a session (manager.go:288 "must not be
\* allowed to share an existing tracked peer's IP+ASN").
NoSharedSession == Duplicates(configs) = {}

\* Without a failure, a configuration that was accepted never takes BGP down:
\* neither a start nor a reload refuses what the requests let in.
StaysUp == faults = 0 /\ pc[Main] \notin {"load", "stopped"} => running

\* The users of one address have one password, or none has one
\* (handlers_admin_users.go:75 "If any existing peer on same IP has a
\* password, new peer's must match").
OnePasswordPerAddress ==
    \A i, j \in Ids :
        /\ store[i] # NoRow /\ store[j] # NoRow
        /\ store[i].addr = store[j].addr
        /\ store[i].addr \notin Dynamic
        => store[i].pw = store[j].pw

\* Every request that has begun ends, and so does the start of the program:
\* every way out of the manager, also that of an error, frees Manager.mu.
EveryCallEnds ==
    /\ \A h \in Requests : pc[h] # Idle ~> pc[h] = Idle
    /\ pc[Main] = "load" ~> pc[Main] = "serve"

\* A change of a restart-only setting that is not in effect is flagged
\* (server.go:181 "Flag it so the admin UI can show" it).
PendingShown == Quiet /\ running /\ setting # snap => pending

=============================================================================
