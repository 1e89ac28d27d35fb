---------------------------- MODULE ConfigImport ----------------------------
(***************************************************************************)
(* The import of a configuration (store/config_snapshot.go,                *)
(* web/handlers_api_config.go).                                            *)
(*                                                                         *)
(* An administrator uploads a snapshot, is shown what it would change and  *)
(* confirms.  One transaction then checks that neither the snapshot nor    *)
(* the configuration has changed since, and writes modes and users one     *)
(* after the other, past indexes that allow no two users one peer and no   *)
(* two services of a mode one number.  It gets old peers out of the way    *)
(* first, to placeholders.  After the commit the peers of the BGP manager  *)
(* follow, user by user.  Settings models the step for the filters.        *)
(*                                                                         *)
(* A user is identified by his name.  His filters and his selection are    *)
(* replaced like his networks.  What a feed link does is modelled in       *)
(* Catalog, and what UpdatePeer does to sessions in BgpManager.            *)
(*                                                                         *)
(* An operator that no action uses, placed before one of the same shape,   *)
(* is a wrong version of it: it is there to show which properties notice.  *)
(***************************************************************************)
EXTENDS Naturals, Sequences, FiniteSetsExt, Functions

CONSTANTS
    NameList,   \* names of users, sorted
    IdOf,       \* their ids
    ModeNames, FeedNames,
    PairList,   \* categories and services, sorted
    Addresses, Networks, Passwords,
    TestNet,    \* the address of placeholders, 192.0.2.1
    FirstAsn,   \* the number they start from, 4200000000
    Snapshots,  \* what may be uploaded
    Replaced,   \* of these, what may take the place of a file
    InitialUsers, InitialModes,
    EditedRows, \* what an administrator makes of a user
    NoUser, NoMode, NoKey, NoPreview,
    MaxImports, MaxEdits, MaxRestarts \* bounds

VARIABLES
    users,    \* users: [peer, mode, nets, on, auth, key], or NoUser
    modes,    \* catalog_modes, their feeds and numbers: [on, feeds, num]
    feeds,    \* the feeds there are
    tracked,  \* Manager.peerConfigs: [peer, key], or NoUser
    preview,  \* what the administrator was shown
    todo,     \* imported users the manager was not told of yet
    reread,   \* the first of them as the database had him
    clean,    \* no UpdatePeer was refused, and none met an import
    spent     \* imports, edits and restarts so far

tables == <<users, modes, feeds>>
importVars == <<tables, tracked, preview, todo, reread, clean, spent>>

Names == Range(NameList)
Pairs == Range(PairList)
Present(us) == {n \in Names : us[n] # NoUser}
Live(ms) == {m \in ModeNames : ms[m] # NoMode}
Spend(what, most) ==
    spent[what] < most /\ spent' = [spent EXCEPT ![what] = @ + 1]

Peers == Addresses \X Nat
Rows == [peer : Peers, mode : ModeNames, nets : SUBSET Networks, on : BOOLEAN,
         auth : BOOLEAN, key : Passwords \cup {NoKey}]
ModeRows == [on : BOOLEAN, feeds : SUBSET FeedNames, num : [Pairs -> Nat]]
SentRows == [peer : Peers, mode : ModeNames, nets : SUBSET Networks,
             on : BOOLEAN, auth : BOOLEAN, secret : BOOLEAN]
IsSnapshot(s) ==
    /\ DOMAIN s.users \subseteq Names /\ s.users \in [DOMAIN s.users -> SentRows]
    /\ DOMAIN s.modes \subseteq ModeNames
    /\ \A m \in DOMAIN s.modes :
          LET given == DOMAIN s.modes[m].num
          IN  /\ given \subseteq Pairs
              /\ s.modes[m] \in [on : BOOLEAN, feeds : SUBSET FeedNames,
                                 num : [given -> Nat \ {0}]]

\* UNIQUE(peer_ip, peer_asn) of users, and UNIQUE(mode_id, community) of the
\* numbers, of which 0 is none.
Free(us, n, peer) == \A o \in Present(us) \ {n} : us[o].peer # peer
PeersAreUnique(us) == \A n \in Present(us) : Free(us, n, us[n].peer)
NumbersAreUnique(num) ==
    \A p, q \in Pairs : p # q /\ num[p] = num[q] => num[p] = 0

ASSUME ImportAssumption ==
    /\ NameList \in Seq(Names) /\ IsInjective(NameList)
    /\ PairList \in Seq(Pairs) /\ IsInjective(PairList)
    /\ IdOf \in [Names -> Nat] /\ FirstAsn \in Nat /\ TestNet \in Addresses
    /\ NoUser \notin Rows /\ NoMode \notin ModeRows
    /\ InitialUsers \subseteq [Names -> Rows \cup {NoUser}]
    /\ \A us \in InitialUsers : PeersAreUnique(us)
    /\ InitialModes \subseteq [ModeNames -> ModeRows \cup {NoMode}]
    /\ \A ms \in InitialModes : \A m \in Live(ms) : NumbersAreUnique(ms[m].num)
    /\ EditedRows \subseteq Rows
    /\ \A s \in Snapshots \cup Replaced : IsSnapshot(s)
    /\ {MaxImports, MaxEdits, MaxRestarts} \subseteq Nat

----------------------------------------------------------------------------
(* Snapshots *)

\* Of a password it is exported only whether there is one.
Exported(u) == [peer |-> u.peer, mode |-> u.mode, nets |-> u.nets,
                on |-> u.on, auth |-> u.auth, secret |-> u.key # NoKey]
Numbers(num) == [p \in {q \in Pairs : num[q] # 0} |-> num[p]]
Snapshot ==
    [users |-> [n \in Present(users) |-> Exported(users[n])],
     modes |-> [m \in Live(modes) |->
                 [on |-> modes[m].on, feeds |-> modes[m].feeds,
                  num |-> Numbers(modes[m].num)]]]

\* DiffConfigSnapshots, for the users or for the modes.
Diff(before, after) ==
    [added   |-> DOMAIN after \ DOMAIN before,
     removed |-> DOMAIN before \ DOMAIN after,
     changed |-> {n \in DOMAIN before \cap DOMAIN after :
                    before[n] # after[n]}]

DigestOfUpload(current, uploaded) == [of |-> uploaded, onto |-> NoPreview]
Digest(current, uploaded) == [of |-> uploaded, onto |-> current]

----------------------------------------------------------------------------
(* ApplyConfigSnapshot.  A draft is what the transaction has written so far *)
(* and whether the database accepted it.                                    *)

\* The numbers a mode gets: those that are named are cleared, then set one by
\* one, and none may be in use.
Cleared(num, given) ==
    [p \in Pairs |-> IF p \in DOMAIN given THEN 0 ELSE num[p]]
SetNumber(d, p, n) ==
    [ok  |-> d.ok /\ \A q \in Pairs \ {p} : d.num[q] # n,
     num |-> [d.num EXCEPT ![p] = n]]
NumbersSet(num, given) ==
    LET after[i \in 0..Len(PairList)] ==
          IF i = 0 THEN [ok |-> TRUE, num |-> Cleared(num, given)]
          ELSE IF PairList[i] \notin DOMAIN given THEN after[i - 1]
          ELSE SetNumber(after[i - 1], PairList[i], given[PairList[i]])
    IN  after[Len(PairList)]
OldNumbers(m) == IF modes[m] = NoMode THEN [p \in Pairs |-> 0]
                 ELSE modes[m].num

\* A mode is created or updated; feeds that are not known are left out.
ModeWritten(s, m) ==
    [on |-> s.modes[m].on, feeds |-> s.modes[m].feeds \cap feeds,
     num |-> NumbersSet(OldNumbers(m), s.modes[m].num).num]
ModesWritten(s) ==
    [m \in ModeNames |-> IF m \in DOMAIN s.modes THEN ModeWritten(s, m)
                         ELSE modes[m]]
ModesAccepted(s) ==
    \A m \in DOMAIN s.modes : NumbersSet(OldNumbers(m), s.modes[m].num).ok

\* A user whose mode is not known is left out.
Resolved(s, n) ==
    n \in DOMAIN s.users /\ ModesWritten(s)[s.users[n].mode] # NoMode
Created(s) == {n \in Names : Resolved(s, n) /\ users[n] = NoUser}
Affected(s) == {n \in Names : Resolved(s, n)}

\* Placeholders must be no peer of the table, nor one that is to be written.
TakenInTable(s) ==
    {users[n].peer[2] : n \in {o \in Present(users) :
                                 users[o].peer[1] = TestNet}}
StagingTaken(s) ==
    TakenInTable(s) \cup
    {s.users[n].peer[2] : n \in {o \in DOMAIN s.users :
                                   s.users[o].peer[1] = TestNet}}
StagingPeer(n, taken) ==
    LET start == FirstAsn + IdOf[n]
    IN  <<TestNet, Min((start..(start + Cardinality(taken))) \ taken)>>
Stage(s, d, n) ==
    IF n \notin Present(users) \/ ~Resolved(s, n)
       \/ users[n].peer = s.users[n].peer
    THEN d
    ELSE LET peer == StagingPeer(n, d.taken)
         IN  [ok |-> d.ok /\ Free(d.users, n, peer),
              users |-> [d.users EXCEPT ![n].peer = peer],
              taken |-> d.taken \cup {peer[2]}]

\* He is created without a password, or keeps the one he has.
WriteUser(s, d, n) ==
    IF ~Resolved(s, n) THEN d
    ELSE LET new == s.users[n]
             key == IF users[n] = NoUser THEN NoKey ELSE users[n].key
         IN  [d EXCEPT !.ok = @ /\ Free(d.users, n, new.peer),
                       !.users[n] = [peer |-> new.peer, mode |-> new.mode,
                                     nets |-> new.nets, on |-> new.on,
                                     auth |-> new.auth, key |-> key]]

\* activeNetworksOverlapTx: an enabled user who is found by his address must
\* not share a network with another.
FoundByAddress(u) == u # NoUser /\ u.on /\ u.auth
NoOverlap(us, n) ==
    FoundByAddress(us[n]) =>
        \A o \in Names \ {n} :
            FoundByAddress(us[o]) => us[o].nets \cap us[n].nets = {}

Staged(s) ==
    LET after[i \in 0..Len(NameList)] ==
          IF i = 0 THEN [ok |-> ModesAccepted(s), users |-> users,
                         taken |-> StagingTaken(s)]
          ELSE Stage(s, after[i - 1], NameList[i])
    IN  after[Len(NameList)]
Draft(s) ==
    LET after[i \in 0..Len(NameList)] ==
          IF i = 0 THEN Staged(s) ELSE WriteUser(s, after[i - 1], NameList[i])
    IN  after[Len(NameList)]
Accepted(s) ==
    Draft(s).ok /\ \A n \in Affected(s) : NoOverlap(Draft(s).users, n)

----------------------------------------------------------------------------
(* The peers of the BGP manager *)

PeerOf(u) == IF u # NoUser /\ u.on THEN [peer |-> u.peer, key |-> u.key]
             ELSE NoUser
Wanted == [n \in Names |-> PeerOf(users[n])]

\* Two passwords for one address are refused, and so is a user the manager
\* has not got yet whose peer it has.
Conflict(ts) ==
    \E n, o \in Present(ts) :
        /\ ts[n].peer[1] = ts[o].peer[1] /\ ts[n].key # ts[o].key
        /\ NoKey \notin {ts[n].key, ts[o].key}
TakesPeer(n, p) == tracked[n] = NoUser /\ ~Free(tracked, n, p.peer)
Refused(n, p) ==
    p # NoUser /\ (TakesPeer(n, p) \/ Conflict([tracked EXCEPT ![n] = p]))

\* UpdatePeer, or DeletePeer for a user who is disabled.
TellManager(n, u) ==
    tracked' = IF Refused(n, PeerOf(u)) THEN tracked
               ELSE [tracked EXCEPT ![n] = PeerOf(u)]

----------------------------------------------------------------------------
ImportInit ==
    /\ users \in InitialUsers /\ modes \in InitialModes
    /\ feeds = UNION {modes[m].feeds : m \in Live(modes)}
    /\ tracked = Wanted
    /\ preview = NoPreview /\ todo = {} /\ reread = NoUser /\ clean = TRUE
    /\ spent = [imports |-> 0, edits |-> 0, restarts |-> 0]

PreviewImport(s) ==
    /\ spent.imports < MaxImports /\ preview = NoPreview
    /\ preview' = Digest(Snapshot, s)
    /\ UNCHANGED <<tables, tracked, todo, reread, clean, spent>>

\* The file may have changed too.
StaleImport(s) ==
    /\ preview # NoPreview
    /\ preview # Digest(Snapshot, s)
    /\ preview' = NoPreview
    /\ UNCHANGED <<tables, tracked, todo, reread, clean, spent>>
FailedImport(s) ==
    /\ preview # NoPreview
    /\ preview = Digest(Snapshot, s) /\ ~Accepted(s)
    /\ preview' = NoPreview
    /\ UNCHANGED <<tables, tracked, todo, reread, clean, spent>>
ApplyImport(s) ==
    /\ preview # NoPreview /\ todo = {}
    /\ preview = Digest(Snapshot, s) /\ Accepted(s)
    /\ Spend("imports", MaxImports)
    /\ users' = Draft(s).users /\ modes' = ModesWritten(s)
    /\ todo' = Affected(s)
    /\ preview' = NoPreview
    /\ UNCHANGED <<feeds, tracked, reread, clean>>

\* syncBGPAfterConfigImport: the user is read, and then the manager told.
\* Errors are only logged.
NextName == NameList[Min({i \in DOMAIN NameList : NameList[i] \in todo})]
SyncGone ==
    /\ todo # {} /\ reread = NoUser /\ users[NextName] = NoUser
    /\ todo' = todo \ {NextName}
    /\ UNCHANGED <<tables, tracked, preview, reread, clean, spent>>
SyncRead ==
    /\ todo # {} /\ reread = NoUser /\ users[NextName] # NoUser
    /\ reread' = users[NextName]
    /\ UNCHANGED <<tables, tracked, preview, todo, clean, spent>>
SyncPeer ==
    /\ todo # {} /\ reread # NoUser
    /\ TellManager(NextName, reread)
    /\ clean' = (clean /\ ~Refused(NextName, PeerOf(reread)))
    /\ reread' = NoUser /\ todo' = todo \ {NextName}
    /\ UNCHANGED <<tables, preview, spent>>

----------------------------------------------------------------------------
(* Other administrators; the manager is told at once *)

Edited(n, u) ==
    /\ users' = [users EXCEPT ![n] = u]
    /\ TellManager(n, u)
    /\ clean' = (clean /\ todo = {} /\ ~Refused(n, PeerOf(u)))
    /\ UNCHANGED <<modes, feeds, preview, todo, reread>>
EditUser(n, u) ==
    /\ Spend("edits", MaxEdits)
    /\ users[n] # u /\ modes[u.mode] # NoMode
    /\ Free(users, n, u.peer) /\ NoOverlap([users EXCEPT ![n] = u], n)
    /\ Edited(n, u)
DeleteUser(n) ==
    Spend("edits", MaxEdits) /\ users[n] # NoUser /\ Edited(n, NoUser)
EditMode(m) ==
    /\ Spend("edits", MaxEdits) /\ modes[m] # NoMode
    /\ modes' = [modes EXCEPT ![m].on = ~@]
    /\ UNCHANGED <<users, feeds, tracked, preview, todo, reread, clean>>
DropFeed(f) ==
    /\ Spend("edits", MaxEdits) /\ f \in feeds /\ feeds' = feeds \ {f}
    /\ modes' = [m \in ModeNames |->
                   IF modes[m] = NoMode THEN NoMode
                   ELSE [modes[m] EXCEPT !.feeds = @ \ {f}]]
    /\ UNCHANGED <<users, tracked, preview, todo, reread, clean>>

\* The manager loads every enabled user.
RestartImport ==
    /\ Spend("restarts", MaxRestarts)
    /\ tracked' = Wanted /\ todo' = {} /\ reread' = NoUser
    /\ clean' = TRUE
    /\ UNCHANGED <<tables, preview>>

Confirmed == IF preview = NoPreview THEN {} ELSE {preview.of} \cup Replaced
ImportNext ==
    \/ \E s \in Snapshots : PreviewImport(s)
    \/ \E s \in Confirmed :
          StaleImport(s) \/ FailedImport(s) \/ ApplyImport(s)
    \/ SyncGone \/ SyncRead \/ SyncPeer
    \/ \E n \in Names : \/ \E u \in EditedRows : EditUser(n, u)
                        \/ DeleteUser(n)
    \/ \E m \in ModeNames : EditMode(m)
    \/ \E f \in FeedNames : DropFeed(f)
    \/ RestartImport

ImportSpec == ImportInit /\ [][ImportNext]_importVars

----------------------------------------------------------------------------
(* Properties *)

\* What the import leaves, said without an order of writes.
FinalUser(s, n) ==
    IF ~Resolved(s, n) THEN users[n]
    ELSE [peer |-> s.users[n].peer, mode |-> s.users[n].mode,
          nets |-> s.users[n].nets, on |-> s.users[n].on,
          auth |-> s.users[n].auth,
          key |-> IF users[n] = NoUser THEN NoKey ELSE users[n].key]
FinalUsers(s) == [n \in Names |-> FinalUser(s, n)]
FinalNumber(s, m, p) ==
    IF p \in DOMAIN s.modes[m].num THEN s.modes[m].num[p] ELSE OldNumbers(m)[p]
ValidResult(s) ==
    /\ PeersAreUnique(FinalUsers(s))
    /\ \A n \in Affected(s) : NoOverlap(FinalUsers(s), n)
    /\ \A m \in DOMAIN s.modes :
          NumbersAreUnique([p \in Pairs |-> FinalNumber(s, m, p)])

\* Whatever peers, networks and numbers users and services exchange, the
\* import is accepted exactly if its result is valid, and nobody is left on a
\* placeholder.  (config_snapshot.go, ApplyConfigSnapshot)
OrderIsIrrelevant ==
    preview # NoPreview =>
        LET s == preview.of
        IN  /\ Accepted(s) <=> ValidResult(s)
            /\ Accepted(s) =>
                  /\ Draft(s).users = FinalUsers(s)
                  /\ \A m \in DOMAIN s.modes : \A p \in Pairs :
                        ModesWritten(s)[m].num[p] = FinalNumber(s, m, p)

Shown(before, after) ==
    LET diff == Diff(before, after) IN diff.added \cup diff.changed

\* An import does what was confirmed: it starts from the configuration the
\* administrator was shown, changes nothing that the difference he was shown
\* does not name, deletes nobody, and changes no password.
\* (config_snapshot.go, ApplyConfigSnapshot; handlers_api_config.go)
ConfirmedIsApplied ==
    [][spent'.imports > spent.imports =>
         LET s == preview.of
         IN  /\ preview.onto = Snapshot
             /\ \A n \in Names :
                   /\ users'[n] # users[n] =>
                        n \in Shown(preview.onto.users, s.users)
                   /\ users[n] # NoUser =>
                        users'[n] # NoUser /\ users'[n].key = users[n].key
             /\ \A n \in Affected(s) :
                   Exported(users'[n])
                     = [s.users[n] EXCEPT !.secret = users'[n].key # NoKey]
             /\ \A m \in ModeNames : modes'[m] # modes[m] =>
                   m \in Shown(preview.onto.modes, s.modes)
      ]_importVars

\* When an import and the calls that follow it are through, the manager has
\* every user as the database has him; but see ImportIsServed.
\* (handlers_api_config.go, syncBGPAfterConfigImport)
CleanImportIsServed == todo = {} /\ clean => tracked = Wanted

\* The same for every import that nothing interfered with.
ImportIsServed ==
    todo = {} /\ spent.edits = 0 => tracked = Wanted
=============================================================================
