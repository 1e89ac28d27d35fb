------------------------------ MODULE ChangeLog ------------------------------
(***************************************************************************)
(* What a user's change log says (store/user_change_log.go,                *)
(* feed_sync_changes.go, auditlog.go).                                     *)
(*                                                                         *)
(* The log tells a user which services a feed update added to or took from *)
(* what he had picked.  Nobody records that: the log is rebuilt, on every  *)
(* read, from the audit rows of the user's own changes, the recorded       *)
(* updates and what he has now.  Rows are purged, ids of users and modes   *)
(* are used again, a row may be too large to keep, and everything may      *)
(* happen within one second.                                               *)
(*                                                                         *)
(* One step is one transaction.  Times are taken while it holds the write  *)
(* lock, so they follow the order of the commits.  One user id, one feed;  *)
(* the other rows of the audit log only take ids.                          *)
(*                                                                         *)
(* An operator that no action uses, placed before one of the same shape,   *)
(* is a wrong version of it: it is there to show which properties notice.  *)
(***************************************************************************)
EXTENDS Naturals, Sequences, FiniteSetsExt, SequencesExt

CONSTANTS
    LogModes,     \* ids of modes
    LogBuiltIn,   \* the modes that cannot be deleted
    LogFallback,  \* where the user of a deleted mode goes
    LogCategories,
    Pickable,     \* bound: the categories and services the user may toggle
    CategoryOfService, \* service -> category
    NoAccount,
    NoFeed,
    NoNote,
    Big,          \* a selection too large to record by name
    MaxNames,     \* names a row may hold (1000)
    MaxRows,      \* rows the reader takes (2000)
    Window,       \* seconds the log reaches back (30 days)
    MaxTime,      \* bound: seconds
    MaxCommits    \* bound: transactions

LogServices == DOMAIN CategoryOfService
LogKeys == LogCategories \cup LogServices

ASSUME LogAssumption ==
    /\ LogFallback \in LogBuiltIn /\ LogBuiltIn \subseteq LogModes
    /\ LogModes \subseteq Nat /\ IsFiniteSet(LogModes)
    /\ Pickable \subseteq LogKeys
    /\ \A v \in LogServices : CategoryOfService[v] \in LogCategories
    /\ \A picked \in SUBSET LogKeys : picked # Big
    /\ {MaxNames, MaxRows, Window, MaxTime, MaxCommits} \subseteq Nat
    /\ MaxRows # 0

VARIABLES
    clock,
    commits,   \* transactions so far
    audit,     \* audit_log: the rows about the user id
    lastId,    \* sqlite_sequence of audit_log
    completeSince, \* audit_log_coverage
    syncs,     \* feed_sync_changes with their modes and services
    account,   \* the users row: [mode, floor, since]
    sel,       \* selected_categories and selected_services of it, per mode
    logMode,   \* catalog_modes: "none", "off" or "on"
    feed,      \* the feed: [on, synced, offers, in]
    seen,      \* user_feed_changes_seen, per mode
    note,      \* the note about new services the user is looking at
    noted      \* per mode, the newest change a note of it has shown

tables == <<account, sel, logMode, feed, seen>>
logVars == <<clock, commits, audit, lastId, completeSince, syncs, tables,
             note, noted>>

Nothing == [m \in LogModes |-> {}]
Zero == [m \in LogModes |-> 0]
Later(x, y) == IF x > y THEN x ELSE y

\* The services of a set that a selection covers, alone or by category.
Covered(picked, services) ==
    {s \in services : {s, CategoryOfService[s]} \cap picked # {}}

Commit == commits < MaxCommits /\ commits' = commits + 1

----------------------------------------------------------------------------
(* Writing: audit rows and recorded updates *)

\* A selection as it is recorded; a digest stands for one that is too large.
Recorded(picked) == IF Cardinality(picked) > MaxNames THEN Big ELSE picked

\* A row is written only for a change.
SelectionRow(m, before, after) ==
    IF before = after THEN << >>
    ELSE <<[kind |-> "selection", mode |-> m, before |-> Recorded(before)]>>
ModeRow(from, to) ==
    IF from = to THEN << >>
    ELSE <<[kind |-> "mode", mode |-> from, before |-> {}]>>

\* AuditEntryTx, for each of some rows: ids go up, and are never reused.
Record(rows) ==
    /\ audit' = audit \cup
         {[kind |-> rows[i].kind, mode |-> rows[i].mode,
           before |-> rows[i].before, id |-> lastId + i, at |-> clock,
           n |-> commits'] : i \in DOMAIN rows}
    /\ lastId' = lastId + Len(rows)

\* What an update with these services is to the user at this moment.
Matters(modes, services) ==
    IF account # NoAccount /\ account.mode \in modes
    THEN Covered(sel[account.mode], services) ELSE {}

\* RecordFeedSyncChangeTx: the update reaches the enabled modes that include
\* the feed.  Its place is right after the last audit row.
SyncRow(modes, added, removed) ==
    [id |-> commits', at |-> clock,
     seq |-> lastId, modes |-> modes, added |-> added,
     removed |-> removed, live |-> TRUE,
     of |-> IF account = NoAccount THEN 0 ELSE account.since,
     matters |-> Matters(modes, added \cup removed)]
Reaches == {m \in feed.in : logMode[m] = "on"}
RecordSync(added, removed) ==
    syncs' = IF added \cup removed = {} THEN syncs
             ELSE syncs \cup {SyncRow(Reaches, added, removed)}

----------------------------------------------------------------------------
(* Reading: the change log *)

Since == Later(IF clock > Window THEN clock - Window ELSE 0, completeSince)

\* newUserHistory: the newest rows of the user, as far as they are complete.
MineOnly(r) == r.id > account.floor
MyRows == {r \in audit : r.at >= Since /\ MineOnly(r)}
Read == LET mine == MyRows
        IN {r \in mine : Cardinality({q \in mine : q.id > r.id}) < MaxRows}
Horizon(read) == IF Cardinality(read) < MaxRows THEN 0
                 ELSE Min({r.id : r \in read})

\* startIndex: the rows that came after an update, and the first of them.
After(s, r) == r.at > s.at \/ (r.at = s.at /\ r.id > s.seq)
Following(read, s, kind) == {r \in read : r.kind = kind /\ After(s, r)}
First(rows) ==
    CHOOSE r \in rows : \A q \in rows :
        r.at < q.at \/ (r.at = q.at /\ r.id <= q.id)

\* The state at a time is the "before" of the first change after it, or what
\* is there now.
ModeAt(read, s) ==
    LET rows == Following(read, s, "mode")
    IN IF rows = {} THEN account.mode ELSE First(rows).mode
SelectionAt(read, s, m) ==
    LET rows == {r \in Following(read, s, "selection") : r.mode = m}
    IN IF rows = {} THEN sel[m] ELSE First(rows).before

\* The modes and the categories that could matter at all.
ReachedModes(read) ==
    {account.mode} \cup {r.mode : r \in {q \in read : q.kind = "mode"}}
ReachedKeys(read) ==
    UNION ({r.before : r \in {q \in read : q.before # Big}}
           \cup {sel[m] : m \in ReachedModes(read)})
ReachedCategories(read) ==
    {c \in LogCategories : \E k \in ReachedKeys(read) :
        k = c \/ (k \in LogServices /\ CategoryOfService[k] = c)}
Candidate(read, s) ==
    /\ s.at >= Since
    /\ s.modes \cap ReachedModes(read) # {}
    /\ \E v \in s.added \cup s.removed :
          CategoryOfService[v] \in ReachedCategories(read)

\* userFeedSyncChanges: what the log says of an update.
Listed(read, s) ==
    LET m == ModeAt(read, s)
        picked == SelectionAt(read, s, m)
    IN IF \/ ~Candidate(read, s)
          \/ s.seq < Later(account.floor, Horizon(read))
          \/ m \notin s.modes \/ picked = Big
       THEN {}
       ELSE Covered(picked, s.added \cup s.removed)

\* userAuditChanges reads what rows there are, however complete.
OwnEntries ==
    {[at |-> r.at, order |-> 2 * r.id, commit |-> 0, n |-> r.n] :
        r \in {q \in audit : q.at + Window >= clock /\ MineOnly(q)}}
SyncEntries ==
    {[at |-> s.at, order |-> 2 * s.seq + 1, commit |-> s.id, n |-> s.id] :
        s \in LET read == Read IN {q \in syncs : Listed(read, q) # {}}}
Entries == OwnEntries \cup SyncEntries

\* Newest first.
Above(a, b) ==
    \/ a.at > b.at
    \/ a.at = b.at /\ a.order > b.order
    \/ a.at = b.at /\ a.order = b.order /\ a.commit > b.commit

----------------------------------------------------------------------------
\* A user was created and has picked the categories.
LogInit ==
    /\ clock = 0 /\ commits = 1 /\ completeSince = 0 /\ syncs = {}
    /\ account = [mode |-> LogFallback, floor |-> 1, since |-> 0]
    /\ sel = [Nothing EXCEPT ![LogFallback] = LogCategories]
    /\ audit = {[kind |-> "selection", mode |-> LogFallback, before |-> {},
                 id |-> 2, at |-> 0, n |-> 1]}
    /\ lastId = 2
    /\ logMode = [m \in LogModes |-> "on"]
    /\ feed = [on |-> TRUE, synced |-> TRUE, offers |-> {}, in |-> LogModes]
    /\ seen = Zero /\ note = NoNote /\ noted = Zero

Tick ==
    /\ clock < MaxTime /\ clock' = clock + 1
    /\ UNCHANGED <<commits, audit, lastId, completeSince, syncs, tables,
                   note, noted>>

\* The user, or an administrator for him, saves what is picked in a mode and
\* may move to it in the same transaction.
SaveSelection(m, ks, switch) ==
    /\ account # NoAccount /\ logMode[m] = "on" /\ Commit
    /\ LET after == (sel[m] \ ks) \cup (ks \ sel[m])
       IN /\ sel' = [sel EXCEPT ![m] = after]
          /\ Record((IF switch THEN ModeRow(account.mode, m) ELSE << >>)
                    \o SelectionRow(m, sel[m], after))
    /\ account' = IF switch THEN [account EXCEPT !.mode = m] ELSE account
    /\ UNCHANGED <<clock, completeSince, syncs, logMode, feed, seen, note,
                   noted>>

SetMode(m) ==
    /\ account # NoAccount /\ logMode[m] = "on" /\ m # account.mode /\ Commit
    /\ account' = [account EXCEPT !.mode = m]
    /\ Record(ModeRow(account.mode, m))
    /\ UNCHANGED <<clock, completeSince, syncs, sel, logMode, feed, seen,
                   note, noted>>

\* Modes come, go, and are disabled; a new one may have the id of an old one.
CreateMode(m) ==
    /\ logMode[m] = "none" /\ Commit
    /\ logMode' = [logMode EXCEPT ![m] = "on"]
    /\ UNCHANGED <<clock, audit, lastId, completeSince, syncs, account, sel,
                   feed, seen, note, noted>>
EnableMode(m) ==
    /\ logMode[m] # "none" /\ Commit
    /\ logMode' = [logMode EXCEPT ![m] = IF @ = "on" THEN "off" ELSE "on"]
    /\ UNCHANGED <<clock, audit, lastId, completeSince, syncs, account, sel,
                   feed, seen, note, noted>>

\* The selection in the mode goes with it, and is recorded first.
DeletedModeRows(m) ==
    SelectionRow(m, sel[m], {})
DeleteMode(m) ==
    /\ logMode[m] # "none" /\ m \notin LogBuiltIn /\ Commit
    /\ LET moves == account # NoAccount /\ account.mode = m
       IN /\ account' = IF moves THEN [account EXCEPT !.mode = LogFallback]
                        ELSE account
          /\ Record(DeletedModeRows(m)
                    \o IF moves THEN ModeRow(m, LogFallback) ELSE << >>)
    /\ logMode' = [logMode EXCEPT ![m] = "none"]
    /\ sel' = [sel EXCEPT ![m] = {}] /\ seen' = [seen EXCEPT ![m] = 0]
    /\ noted' = [noted EXCEPT ![m] = 0]
    /\ feed' = IF feed = NoFeed THEN feed ELSE [feed EXCEPT !.in = @ \ {m}]
    /\ note' = IF note # NoNote /\ note.mode = m THEN NoNote ELSE note
    /\ UNCHANGED <<clock, completeSince, syncs>>

----------------------------------------------------------------------------
(* The feed *)

\* A synchronisation replaces what the feed offers and records the difference,
\* unless it is the first.
Sync(offers) ==
    /\ feed # NoFeed /\ feed.on /\ Commit
    /\ feed' = [feed EXCEPT !.offers = offers, !.synced = TRUE]
    /\ feed' # feed
    /\ IF feed.synced
       THEN RecordSync(offers \ feed.offers, feed.offers \ offers)
       ELSE UNCHANGED syncs
    /\ UNCHANGED <<clock, audit, lastId, completeSince, account, sel,
                   logMode, seen, note, noted>>

CreateFeed(modes) ==
    /\ feed = NoFeed /\ Commit
    /\ feed' = [on |-> TRUE, synced |-> FALSE, offers |-> {}, in |-> modes]
    /\ UNCHANGED <<clock, audit, lastId, completeSince, syncs, account, sel,
                   logMode, seen, note, noted>>

\* Its services go.  A disabled feed had left its modes before.  What is no
\* longer offered by any feed is no longer picked, in whatever mode, and the
\* rows of that, in the order of the modes, come after the record of the
\* update.
Ascending(S) ==
    {ms \in [1..Cardinality(S) -> S] :
        \A i, j \in DOMAIN ms : i < j => ms[i] < ms[j]}
PrunedModes == {m \in LogModes : sel[m] # {}}
PrunedRows(ms) ==
    [i \in DOMAIN ms |-> [kind |-> "selection", mode |-> ms[i],
                          before |-> Recorded(sel[ms[i]])]]
RecordDropAt(place) ==
    LET row == [SyncRow(Reaches, {}, feed.offers) EXCEPT !.seq = place]
        kept == IF feed.on /\ feed.offers # {} THEN syncs \cup {row}
                ELSE syncs
    IN syncs' = {[s EXCEPT !.live = FALSE] : s \in kept}
RecordDropLast(rows) == RecordDropAt(lastId + Len(rows))
RecordDrop(rows) == RecordDropAt(lastId)
DropFeed ==
    /\ feed # NoFeed /\ Commit
    /\ \E ms \in Ascending(PrunedModes) :
          RecordDrop(PrunedRows(ms)) /\ Record(PrunedRows(ms))
    /\ sel' = Nothing /\ feed' = NoFeed
    /\ UNCHANGED <<clock, completeSince, account, logMode, seen, note, noted>>

EnableFeed ==
    /\ feed # NoFeed /\ Commit
    /\ feed' = [feed EXCEPT !.on = ~@]
    /\ UNCHANGED <<clock, audit, lastId, completeSince, syncs, account, sel,
                   logMode, seen, note, noted>>

LinkMode(m) ==
    /\ feed # NoFeed /\ logMode[m] # "none" /\ Commit
    /\ feed' = [feed EXCEPT !.in = IF m \in @ THEN @ \ {m} ELSE @ \cup {m}]
    /\ UNCHANGED <<clock, audit, lastId, completeSince, syncs, account, sel,
                   logMode, seen, note, noted>>

----------------------------------------------------------------------------
(* Users and the audit log itself *)

\* The history of a new user starts at the row of its creation.
FloorOf(row) == row
CreateUser(m) ==
    /\ account = NoAccount /\ logMode[m] = "on" /\ Commit
    /\ lastId' = lastId + 1
    /\ account' = [mode |-> m, floor |-> FloorOf(lastId + 1),
                   since |-> commits']
    /\ UNCHANGED <<clock, audit, completeSince, syncs, sel, logMode, feed,
                   seen, note, noted>>

DeleteUser ==
    /\ account # NoAccount /\ Commit
    /\ account' = NoAccount /\ sel' = Nothing /\ seen' = Zero
    /\ note' = NoNote /\ noted' = Zero
    /\ UNCHANGED <<clock, audit, lastId, completeSince, syncs, logMode, feed>>

\* PurgeAuditLog; the retention is a setting, so any cutoff may come.
BoundaryAt(cutoff) == Later(completeSince, cutoff)
Purge(cutoff) ==
    /\ cutoff \in 1..clock /\ Commit
    /\ audit' = {r \in audit : r.at >= cutoff}
    /\ syncs' = {s \in syncs : s.live \/ s.at >= cutoff}
    /\ completeSince' = BoundaryAt(cutoff)
    /\ UNCHANGED <<clock, lastId, tables, note, noted>>

\* ApplyConfigSnapshot, for the user: his mode and what he has picked in it
\* are replaced, or he is created, and one row says that there was an import.
ImportUser(m, picked) ==
    /\ logMode[m] # "none" /\ Commit
    /\ lastId' = lastId + 1
    /\ account' = IF account = NoAccount
                  THEN [mode |-> m, floor |-> 0, since |-> commits']
                  ELSE [account EXCEPT !.mode = m]
    /\ sel' = [sel EXCEPT ![m] = picked]
    /\ UNCHANGED <<clock, audit, completeSince, syncs, logMode, feed, seen,
                   note, noted>>

----------------------------------------------------------------------------
(* The note about new services, acknowledged up to the newest shown *)

NewIn(s, m) ==
    /\ s.id > seen[m] /\ s.live /\ feed.on
    /\ m \in feed.in /\ logMode[m] = "on"
    /\ {CategoryOfService[v] : v \in s.added} \cap sel[m] # {}
News(m) == {s.id : s \in {t \in syncs : NewIn(t, m)}}

ReadNote ==
    /\ account # NoAccount /\ News(account.mode) # {}
    /\ note' = [mode |-> account.mode, through |-> Max(News(account.mode))]
    /\ noted' = [noted EXCEPT ![account.mode] = Later(@, note'.through)]
    /\ note' # note
    /\ UNCHANGED <<clock, commits, audit, lastId, completeSince, syncs,
                   tables>>

ModeOfTheMoment == account.mode
AckedMode == note.mode
Ack ==
    /\ note # NoNote /\ Commit
    /\ seen' = [seen EXCEPT ![AckedMode] = Later(@, note.through)]
    /\ note' = NoNote
    /\ UNCHANGED <<clock, audit, lastId, completeSince, syncs, account, sel,
                   logMode, feed, noted>>

\* apiUserChangeLog only reads: Entries is what it shows.
ReadLog == UNCHANGED logVars

----------------------------------------------------------------------------
LogNext ==
    \/ Tick
    \/ \E m \in LogModes :
          \/ \E k \in Pickable, switch \in BOOLEAN :
                SaveSelection(m, {k}, switch)
          \/ SetMode(m) \/ CreateMode(m) \/ EnableMode(m) \/ DeleteMode(m)
          \/ CreateUser(m) \/ LinkMode(m)
    \/ \E offers \in SUBSET LogServices : Sync(offers)
    \/ CreateFeed({m \in LogModes : logMode[m] # "none"})
    \/ DropFeed \/ EnableFeed \/ DeleteUser
    \/ \E cutoff \in 1..MaxTime : Purge(cutoff)
    \/ ReadLog \/ ReadNote \/ Ack

LogSpec == LogInit /\ [][LogNext]_logVars

\* With imports the log can be wrong, see log_import_bug.cfg.
ImportNext ==
    \E m \in LogModes, picked \in SUBSET Pickable : ImportUser(m, picked)

----------------------------------------------------------------------------
(* Properties *)

\* The log says of an update exactly what it was to this user when it
\* happened, whatever he, an administrator or a purge has done since, and
\* nothing of one that came before him.  Where a row that was too large or
\* was not read stands in between, it may say nothing, and nothing wrong.
\* Entries come in the order in which the changes were committed, those of
\* one second included, and none is another user's.
\* (user_change_log.go, UserChangeLog, syncOrder)
WasTrue(s) == IF s.of = account.since THEN s.matters ELSE {}
Readable(read, s) ==
    /\ s.at >= Since /\ s.seq >= Horizon(read)
    /\ \A r \in Following(read, s, "selection") : r.before # Big
InOrder ==
    LET entries == Entries
    IN  \A e, f \in entries :
            Above(e, f) <=> e.n > f.n \/ (e.n = f.n /\ e.order > f.order)
LogIsTrue ==
    account # NoAccount =>
        LET read == Read
        IN  /\ \A s \in syncs :
                  LET said == Listed(read, s)
                  IN  /\ said \subseteq WasTrue(s)
                      /\ Readable(read, s) => said = WasTrue(s)
            /\ InOrder
            /\ \A e \in OwnEntries : e.n > account.since

\* No update is hidden in a mode by a note that did not show it there: not by
\* one of another mode, not by one read before the update, and not by those
\* of a user or a mode that had the id before.
\* (feed_sync_changes.go, AckUserFeedChanges)
AckedWasShown == \A m \in LogModes : seen[m] <= noted[m]
=============================================================================
